---- MODULE Spec2Model ----
(***************************************************************************)
(* A model of Project A2 (a2_kernels.cpp, a2_benchmark.cpp): the CSR       *)
(* builder, the GEMM and SpMM kernels, their parallel loops, the aligned   *)
(* buffers, the stream triad, the random engine and the driver's loops.   *)
(*                                                                         *)
(* Conventions.                                                            *)
(*  - C++ vectors indexed by a row (cols, vals, rowptr) are functions over *)
(*    0..m-1 (0..m for rowptr); the inner vectors and colidx / values are  *)
(*    sequences, so element p of the code is element p+1 here.             *)
(*  - A density is a rational <<num, den>> with den > 0; the code's double *)
(*    arithmetic on it is done exactly.                                    *)
(*  - The draws of the random engine are nondeterministic choices.  A      *)
(*    value drawn by vdist is represented by the ordinal of the vdist call *)
(*    that produced it, so two different draws are always distinguishable. *)
(***************************************************************************)
EXTENDS Integers, Sequences, FiniteSets, TLC

VARIABLES
  \* ---- make_random_csr ----
  m, k, density, pattern,   \* the arguments of the call
  pc,                       \* position inside make_random_csr
  ri,                       \* loop index: row (band, blockdiag, uniform fix-up), draw (uniform)
  cols, vals,               \* std::vector<std::vector<..>> cols, vals
  nvals,                    \* number of vdist(rng) calls made so far
  gen,                      \* per row: the (column, value) pairs drawn together for it
  ranges,                   \* the <<lo, hi>> column ranges a distribution was built on
  rowptr, colidx, values,   \* the CSR A being returned
  outcome,                  \* how the call ended: "pending" | "csr"
  \* ---- gemm_tiled_scalar / gemm_tiled_avx2, run side by side on the same inputs ----
  gm, gk, gn,               \* the kernels' m, k, n
  tileM, tileK, tileN,      \* the tile sizes
  A, B,                     \* the operands (element x of the code is A[x])
  C, Cv,                    \* the output buffer of the scalar / of the AVX2 kernel
  C0,                       \* the buffers' contents when the running call began
  Cfirst,                   \* C after the first call that followed a zero_fill
  gpc,                      \* "idle" | "run"
  ii, kk, jj,               \* the tile the kernels are about to process
  cnt, cntv,                \* per (t, element of C): accumulations made by this call
  oob,                      \* the scalar kernel touched an element outside A, B or C
  laneOut,                  \* the AVX2 kernel touched a column >= j_end or left a buffer
  zeroed,                   \* C was zero-filled and only accumulated into since
  calls,                    \* kernel calls completed since the buffer was last (re)set
  arith,                    \* the arithmetic the kernels run in: "exact" | "float"
  \* ---- spmm_csr_scalar / spmm_csr_avx2, run side by side on the same inputs ----
  csrA,                     \* the CSR operand: [m, k, rowptr, colidx, values]
  sn, jblock, layoutB,      \* the kernels' n, jblock and layout tag ("row" | "col")
  sB,                       \* the dense operand
  sC, sCv,                  \* the output buffer of the scalar / of the AVX2 kernel
  spc,                      \* "ready" | "run" | "done"
  si, sj0,                  \* the row and the column block the kernels are about to process
  scnt, scntv,              \* per (non-zero p, element of C): accumulations made by this call
  soob,                     \* the scalar kernel touched an element outside the arrays
  slaneOut,                 \* the AVX2 kernel touched a column >= n or left an array
  scalls,                   \* kernel calls completed
  \* ---- a parallel region (#pragma omp parallel for schedule(static)) ----
  pjob,                     \* the kernel and its arguments
  pthreads,                 \* the number of workers of the team
  powner,                   \* per iteration of the parallel loop: the worker it is assigned to
  pphase,                   \* "entry" | "par" | "joined"
  pstmts,                   \* per worker: the statements of its iterations, in its order
  pmem, pmem0,              \* the output array (C, or a of the triad); its contents at the fork
  ppos,                     \* per worker: memory steps done (a load and a store per statement)
  ptmp,                     \* per worker: the value its load read from the output element
  preads, pwrites,          \* per worker: the locations <<array, index>> read / written
  \* ---- the loop headers of a kernel call ----
  tjob,                     \* the kernel, the loops' bounds and steps (outermost first)
  tctr,                     \* the loop variables
  tdepth,                   \* the loop whose header is evaluated next
  tpc,                      \* "call" | "test" | "body" | "returned" | "crashed"
  \* ---- AlignedBuffer objects, the allocator, stream_triad_bandwidth_gbps ----
  heap,                     \* the blocks posix_memalign handed out: [addr, bytes, frees]
  htop,                     \* the lowest address not yet handed out
  bufs,                     \* the AlignedBuffer objects a, b, c: [ptr, count] and, for the
                            \* last make_aligned_f32 that built them, [reqCount, reqAlign],
                            \* and the free_aligned calls made on them since
  bpc,                      \* position of the client / inside the triad function
  bops,                     \* calls the client has made
  bN, biters, bit,          \* the triad's N, iters and loop variable it
  bdata,                    \* the contents of the arrays a, b, c
  \* ---- a caller of fill_random / make_random_csr and of other core functions ----
  deng,                     \* the state the last call left its local engine object in
  dbuild,                   \* what the build does where the language leaves it open:
                            \* [ties: std::sort's order of equal keys, wild: the offset of
                            \* a draw from a distribution built with lo > hi]
  dcalls,                   \* core calls made
  dref,                     \* the first call: [args, res]
  drepeat,                  \* the result of the latest call made with dref's arguments
  dreps,                    \* calls made with dref's arguments after the first
  dbetween,                 \* calls made with other arguments since the latest such call
  \* ---- the driver's repetition loop (a2_benchmark.cpp, gemm and spmm_csr branches) ----
  bench_kernel,             \* "gemm" | "spmm_csr"
  bench_pc,                 \* "test" | "zero" | "t0" | "call" | "t1" | "done"
  bench_r,                  \* the loop variable r
  bench_t0,                 \* the local t0 of the running iteration
  call_times,               \* std::vector<double> call_times
  clock,                    \* the steady clock, in ticks
  kernel_calls,             \* kernel calls made so far
  timed_calls,              \* kernel calls made between a t0 and a t1 reading
  \* ---- the driver's statistics: the median and percentile_us ----
  stat_src,                 \* whose samples: "gemm" | "spmm_csr" | "stream" | "client"
  stat_pc,                  \* "median" | "percentile" | "reported"
  samples,                  \* call_times / samples_sec, in seconds
  samples0,                 \* the samples as they were recorded
  seconds,                  \* the driver's seconds
  p50, p95, p99,            \* percentile_us's results, in 1/PctDen microseconds
  stat_reads,               \* the indices of v that percentile_us read
  \* ---- one row of make_random_csr's band / blockdiag loops, on larger matrices ----
  row_m, row_k, row_density, row_pattern,   \* the arguments m, k, density, pattern
  row_i,                    \* the row i
  row_cols,                 \* cols[i] after the iteration
  row_pc,                   \* "draw" | "built"
  \* ---- the kernels' int element offsets ----
  idx_m, idx_k, idx_n,      \* the driver's int arguments m, k, n
  idx_size,                 \* element counts of the buffers A, B, C (size_t)
  idx_expr,                 \* the expression that was evaluated
  idx_math,                 \* its mathematical value
  idx_off,                  \* what the int evaluation produced: <<"ok", v>> or <<"trap", 0>>
  idx_limit,                \* the number of elements of the buffer it indexes
  idx_pc,                   \* "alloc" | "index" | "done"
  \* ---- the A4 hash table used by one thread ----
  map_nb,                   \* ht->nbuckets
  map_head,                 \* bucket index -> the bucket's list, head first, of <<key, value>>
  map_last,                 \* key -> the value of the latest ht_insert of the key (0: none)
  map_hist,                 \* key -> "never" | "inserted" | "erased": the latest insert / successful erase
  map_ret,                  \* the latest call: <<operation, key, returned int, *out>>
  map_before,               \* key -> what ht_find returned for the key before the latest call
  map_ops,                  \* calls made
  \* ---- the A4 hash table used by several threads ----
  ht_impl,                  \* "coarse" | "fine": the variant every thread calls
  ht_nb,                    \* ht->nbuckets
  ht_head,                  \* bucket index -> the bucket's list, head first, of <<key, value>>
  ht_lock,                  \* lock -> holder; lock -1 is global_lock, lock b is buckets[b].lock; 0: free
  ht_pc,                    \* thread -> "idle" | "lock" | "alloc" | "link" | "walk" | "scan" | "unlock"
  ht_call,                  \* thread -> <<operation, key, value>> of its call
  ht_pos,                   \* thread -> the node its loop is at (1: head)
  ht_node,                  \* thread -> n->next of the node an insert prepared
  ht_ret,                   \* thread -> <<returned int, *out>> of its latest call
  ht_left,                  \* calls not yet started
  ht_abs,                   \* the table the calls produce when run one after the other in the order of their lock acquisitions
  ht_absret,                \* thread -> what its call returns in that order
  ht_acq,                   \* thread -> <<locks acquired, locks released>> in its call
  ht_nolock,                \* a bucket was read or written by a thread not holding the lock covering it
  ht_net                    \* nodes present at the start + inserts returned - erases that returned 1

csrVars == <<m, k, density, pattern, pc, ri, cols, vals, nvals, gen, ranges,
             rowptr, colidx, values, outcome>>

gemmVars == <<gm, gk, gn, tileM, tileK, tileN, A, B, C, Cv, C0, Cfirst, gpc,
              ii, kk, jj, cnt, cntv, oob, laneOut, zeroed, calls, arith>>

spmmVars == <<csrA, sn, jblock, layoutB, sB, sC, sCv, spc, si, sj0, scnt, scntv,
              soob, slaneOut, scalls>>

parVars == <<pjob, pthreads, powner, pphase, pstmts, pmem, pmem0, ppos, ptmp, preads,
             pwrites>>

\* the state outside make_random_csr / outside the GEMM kernels / outside the
\* SpMM kernels / outside the parallel region (arith, the arithmetic, is
\* shared by the kernels)
termVars == <<tjob, tctr, tdepth, tpc>>

bufVars == <<heap, htop, bufs, bpc, bops, bN, biters, bit, bdata>>

detVars == <<deng, dbuild, dcalls, dref, drepeat, dreps, dbetween>>

rowVars == <<row_m, row_k, row_density, row_pattern, row_i, row_cols, row_pc>>
idxVars == <<idx_m, idx_k, idx_n, idx_size, idx_expr, idx_math, idx_off, idx_limit, idx_pc>>
mapVars == <<map_nb, map_head, map_last, map_hist, map_ret, map_before, map_ops>>
htVars ==
  <<ht_impl, ht_nb, ht_head, ht_lock, ht_pc, ht_call, ht_pos, ht_node, ht_ret, ht_left,
    ht_abs, ht_absret, ht_acq, ht_nolock, ht_net>>

statVars == <<stat_src, stat_pc, samples, samples0, seconds, p50, p95, p99, stat_reads>>

drvVars == <<bench_kernel, bench_pc, bench_r, bench_t0, call_times, clock, kernel_calls,
             timed_calls>>

nonCsrVars == <<gemmVars, spmmVars, parVars, termVars, bufVars, detVars, drvVars, statVars, rowVars, idxVars, mapVars, htVars>>
nonGemmVars == <<csrVars, spmmVars, parVars, termVars, bufVars, detVars, drvVars, statVars, rowVars, idxVars, mapVars, htVars>>
nonSpmmVars == <<csrVars, gemmVars, parVars, termVars, bufVars, detVars, drvVars, statVars, rowVars, idxVars, mapVars, htVars>>
nonParVars == <<csrVars, gemmVars, spmmVars, termVars, bufVars, detVars, drvVars, statVars, rowVars, idxVars, mapVars, htVars>>
nonTermVars == <<csrVars, gemmVars, spmmVars, parVars, bufVars, detVars, drvVars, statVars, rowVars, idxVars, mapVars, htVars>>

nonBufVars == <<csrVars, gemmVars, spmmVars, parVars, termVars, detVars, drvVars, statVars, rowVars, idxVars, mapVars, htVars>>

nonDetVars == <<csrVars, gemmVars, spmmVars, parVars, termVars, bufVars, drvVars, statVars, rowVars, idxVars, mapVars, htVars>>

nonDrvVars == <<csrVars, gemmVars, spmmVars, parVars, termVars, bufVars, detVars, statVars, rowVars, idxVars, mapVars, htVars>>

nonStatVars == <<csrVars, gemmVars, spmmVars, parVars, termVars, bufVars, detVars, drvVars, rowVars, idxVars, mapVars, htVars>>

nonRowVars == <<csrVars, gemmVars, spmmVars, parVars, termVars, bufVars, detVars, drvVars, statVars, idxVars, mapVars, htVars>>

nonIdxVars == <<csrVars, gemmVars, spmmVars, parVars, termVars, bufVars, detVars, drvVars, statVars, rowVars, mapVars, htVars>>

nonMapVars == <<csrVars, gemmVars, spmmVars, parVars, termVars, bufVars, detVars, drvVars, statVars, rowVars, idxVars, htVars>>

nonHtVars == <<csrVars, gemmVars, spmmVars, parVars, termVars, bufVars, detVars, drvVars, statVars, rowVars, idxVars, mapVars>>

vars == <<csrVars, gemmVars, spmmVars, parVars, termVars, bufVars, detVars, drvVars, statVars, rowVars, idxVars, mapVars, htVars>>

----------------------------------------------------------------------------
(* Bounds of the model *)

MaxM == 2        \* rows of the CSR
MaxK == 3        \* columns of the CSR
MaxDraws == 4    \* uniform pattern: calls with more draws than this are left out

MaxDim == 2      \* GEMM: m, k and the small n (one dimension at a time may be MaxDim + 1)
MaxCalls == 2    \* GEMM: kernel calls made on a buffer before it is zero-filled again
MaxCells == 8    \* GEMM: m * k * n of a call whose n is a small one
MaxThreads == 2  \* workers of a parallel region
MaxParCells == 4 \* multiply-adds of a kernel whose parallel region is examined
MaxInt == 3      \* INT_MAX of the model's int; INT_MIN is -MaxInt - 1
SizeBits == 6    \* bits of the model's size_t
MaxOps == 3      \* make_aligned_f32 / free_aligned calls of a client
MaxIters == 2    \* the triad's iters
MaxDetCalls == 3 \* core calls a caller makes
MaxSamples == 4  \* samples of a vector a client passes to percentile_us
MaxRowM == 9     \* rows of a matrix whose rows are examined one at a time
MaxRowK == 17    \* columns of such a matrix
MaxBuckets == 2   \* buckets of a hash table
MaxMapOps == 4    \* calls a single-threaded client makes on a hash table
MaxHtCalls == 2   \* calls the threads make on a shared hash table
MantBits == 3    \* significand bits of the model's float format (a C++ float has 24)

(* Program constants *)

blocks == 8      \* a2_kernels.cpp:82
Lanes == 8       \* a2_kernels.cpp:199, the floats of one __m256
SizeofFloat == 4 \* a2_kernels.cpp:28, sizeof(float)
SizeofPtr == 8   \* a2_kernels.cpp:21, sizeof(void*): posix_memalign wants a multiple of it
TriadAlign == 64 \* a2_kernels.cpp:297, the alignment the triad asks for
GemmReps == 15   \* a2_benchmark.cpp:108, reps of the gemm branch
SpmmReps == 20   \* a2_benchmark.cpp:145, reps of the spmm_csr branch
UsPerSec == 1000000 \* a2_utils.cpp:27, the 1e6 of sec -> us
PctDen == 100    \* a2_utils.cpp:29, the denominator of the quantiles 0.50, 0.95, 0.99

----------------------------------------------------------------------------
(* Helpers *)

Max2(a, b) == IF a >= b THEN a ELSE b
Min2(a, b) == IF a <= b THEN a ELSE b

\* std::round(a / b) for b > 0: halves round away from zero
Round(a, b) ==
  IF a >= 0 THEN (2 * a + b) \div (2 * b)
            ELSE -((2 * (-a) + b) \div (2 * b))

RECURSIVE Insert(_, _)
Insert(x, s) ==
  IF s = <<>> THEN <<x>>
  ELSE IF x <= Head(s) THEN <<x>> \o s
  ELSE <<Head(s)>> \o Insert(x, Tail(s))

\* std::sort on a vector<int>
RECURSIVE StdSort(_)
StdSort(s) == IF s = <<>> THEN <<>> ELSE Insert(Head(s), StdSort(Tail(s)))

\* erase(std::unique(..)): drops every element equal to its predecessor
RECURSIVE StdUnique(_)
StdUnique(s) ==
  IF Len(s) <= 1 THEN s
  ELSE IF s[1] = s[2] THEN StdUnique(Tail(s))
  ELSE <<s[1]>> \o StdUnique(Tail(s))

\* what a uniform_int_distribution<int>(lo, hi) can return.  With lo > hi the
\* precondition of the distribution is violated and the call can return any
\* int; -1 .. kc+1 stands for "any int" (below, inside and above [0, kc)).
Draw(lo, hi, kc) == IF lo <= hi THEN lo .. hi ELSE -1 .. (kc + 1)


----------------------------------------------------------------------------
(* make_random_csr: inputs *)

\* an unrecognized pattern name stands for every string the code does not compare against
Patterns == {"uniform", "band", "blockdiag", "banded"}

\* -0.25, 0, 0.25 and 1.0
Densities == {<<-1, 4>>, <<0, 1>>, <<1, 4>>, <<1, 1>>}

\* the if / else-if / else chain on the pattern string
Branch(pat) ==
  IF pat = "band" THEN "band"
  ELSE IF pat = "blockdiag" THEN "blockdiag"
  ELSE "uniform"

\* a draw loop that runs m iterations more than the target
NnzOverdraw(mm, kc, d) == Max2(mm, Round(mm * kc * d[1], d[2])) + mm

\* uniform: nnz = max(m, (int)round(m * k * density))
Nnz(mm, kc, d) == Max2(mm, Round(mm * kc * d[1], d[2]))

\* band: bw = max(1, (int)round(k * min(0.20, max(0.01, density * 5.0)))),
\* computed over the common denominator 100 * den
BandWidth(kc, d) ==
  LET q == Min2(20 * d[2], Max2(d[2], 500 * d[1]))
  IN  Max2(1, Round(kc * q, 100 * d[2]))

\* a target without the max(1, ..) floor
TargetNoFloor(span, kc, d) ==
  IF span <= 0 THEN 0
  ELSE Min2(span, IF kc * d[1] >= span * d[2] THEN span ELSE Round(kc * d[1], d[2]))

\* target = max(1, min(span, (int)round(span * min(1.0, density * k / span)))).
\* With span <= 0 the inner min(span, ..) is <= 0 whatever the rounded value
\* is, so the result is 1.
Target(span, kc, d) ==
  IF span <= 0 THEN 1
  ELSE Max2(1, Min2(span, IF kc * d[1] >= span * d[2]
                           THEN span
                           ELSE Round(kc * d[1], d[2])))

BandCenter(row, mm, kc) == (row * kc) \div Max2(1, mm)
BandLo(row, mm, kc, d) == Max2(0, BandCenter(row, mm, kc) - BandWidth(kc, d))

\* a band whose upper end is not clamped to k - 1
BandHiNoClamp(row, mm, kc, d) == BandCenter(row, mm, kc) + BandWidth(kc, d)

BandHi(row, mm, kc, d) == Min2(kc - 1, BandCenter(row, mm, kc) + BandWidth(kc, d))

BlockOf(row, mm) == Min2(blocks - 1, row \div Max2(1, mm \div blocks))
BlockLo(row, mm, kc) == BlockOf(row, mm) * Max2(1, kc \div blocks)
BlockHi(row, mm, kc) == Min2(kc - 1, BlockLo(row, mm, kc) + Max2(1, kc \div blocks) - 1)

\* a row finish that sorts and forgets to erase the duplicates
SortOnlyCols(s) == StdSort(s)

\* band / blockdiag: sort the row's columns, then erase the adjacent duplicates
SortUniqueCols(s) == StdUnique(StdSort(s))

\* uniform: the results std::sort can leave in idx: every permutation of the
\* positions of rc that puts the columns in non-decreasing order (std::sort is
\* not stable, so equal columns may come in any order)
SortedIdx(rc) ==
  {idx \in [1 .. Len(rc) -> 1 .. Len(rc)] :
     /\ \A a, b \in 1 .. Len(rc) : a # b => idx[a] # idx[b]
     /\ \A a \in 1 .. Len(rc) - 1 : rc[idx[a]] <= rc[idx[a + 1]]}

\* a loop over idx that copies every entry, duplicates included
DedupLoopKeepAll(rc, rv, idx, t2, last, rc2, rv2) ==
  <<[t \in 1 .. Len(idx) |-> rc[idx[t]]], [t \in 1 .. Len(idx) |-> rv[idx[t]]]>>

\* uniform: the loop over idx that skips a column equal to `last`;
\* returns <<rc2, rv2>>
RECURSIVE DedupLoop(_, _, _, _, _, _, _)
DedupLoop(rc, rv, idx, t2, last, rc2, rv2) ==
  IF t2 > Len(idx) THEN <<rc2, rv2>>
  ELSE LET c == rc[idx[t2]]
       IN  IF c = last
           THEN DedupLoop(rc, rv, idx, t2 + 1, last, rc2, rv2)
           ELSE DedupLoop(rc, rv, idx, t2 + 1, c, Append(rc2, c), Append(rv2, rv[idx[t2]]))

\* rowptr[i] = the number of entries of the rows before i
RECURSIVE TotalBefore(_, _)
TotalBefore(cs, row) == IF row = 0 THEN 0 ELSE TotalBefore(cs, row - 1) + Len(cs[row - 1])

\* a prefix sum that stores the running total after adding the row's size
RowPtrInclusive(cs, mm) ==
  [r \in 0 .. mm |-> TotalBefore(cs, IF r < mm THEN r + 1 ELSE mm)]

\* the rowptr loop: rowptr[i] = total; total += cols[i].size(); rowptr[m] = total
RowPtr(cs, mm) == [r \in 0 .. mm |-> TotalBefore(cs, r)]

\* the concatenation loops: row by row, the first cols[i].size() elements of v[i]
RECURSIVE ConcatRows(_, _, _, _)
ConcatRows(cs, v, row, mm) ==
  IF row >= mm THEN <<>>
  ELSE [t \in 1 .. Len(cs[row]) |-> v[row][t]] \o ConcatRows(cs, v, row + 1, mm)

----------------------------------------------------------------------------
(* make_random_csr: the call *)

InitCsr ==
  /\ m \in 1 .. MaxM
  /\ k \in 1 .. MaxK
  /\ density \in Densities
  /\ pattern \in Patterns
  /\ Branch(pattern) = "uniform" => Nnz(m, k, density) <= MaxDraws
  /\ pc = "dispatch"
  /\ ri = 0
  /\ cols = [r \in 0 .. m - 1 |-> <<>>]
  /\ vals = [r \in 0 .. m - 1 |-> <<>>]
  /\ nvals = 0
  /\ gen = [r \in 0 .. m - 1 |-> {}]
  /\ ranges = {}
  /\ rowptr = [r \in 0 .. m |-> 0]
  /\ colidx = <<>>
  /\ values = <<>>
  /\ outcome = "pending"

Dispatch ==
  /\ pc = "dispatch"
  /\ pc' = Branch(pattern)
  /\ UNCHANGED nonCsrVars
  /\ UNCHANGED <<m, k, density, pattern, ri, cols, vals, nvals, gen, ranges,
                 rowptr, colidx, values, outcome>>

\* one iteration of a band / blockdiag row loop: `target` draws from
\* bdist(lo, hi), each followed by a vdist draw, then sort and unique of cols[i]
RowDraws(lo, hi) ==
  LET target == Target(hi - lo + 1, k, density)
  IN  \E dr \in [1 .. target -> Draw(lo, hi, k)] :
        /\ cols' = [cols EXCEPT ![ri] = SortUniqueCols(cols[ri] \o dr)]
        /\ vals' = [vals EXCEPT ![ri] = vals[ri] \o [t \in 1 .. target |-> nvals + t]]
        /\ nvals' = nvals + target
        /\ gen' = [gen EXCEPT ![ri] = {<<dr[t], nvals + t>> : t \in 1 .. target}]
        /\ ranges' = ranges \cup {<<lo, hi>>}

BandRow ==
  /\ pc = "band"
  /\ ri < m
  /\ RowDraws(BandLo(ri, m, k, density), BandHi(ri, m, k, density))
  /\ ri' = IF ri + 1 < m THEN ri + 1 ELSE 0
  /\ pc' = IF ri + 1 < m THEN "band" ELSE "rowptr"
  /\ UNCHANGED nonCsrVars
  /\ UNCHANGED <<m, k, density, pattern, rowptr, colidx, values, outcome>>

BlockdiagRow ==
  /\ pc = "blockdiag"
  /\ ri < m
  /\ RowDraws(BlockLo(ri, m, k), BlockHi(ri, m, k))
  /\ ri' = IF ri + 1 < m THEN ri + 1 ELSE 0
  /\ pc' = IF ri + 1 < m THEN "blockdiag" ELSE "rowptr"
  /\ UNCHANGED nonCsrVars
  /\ UNCHANGED <<m, k, density, pattern, rowptr, colidx, values, outcome>>

\* uniform: one iteration of the draw loop (i is the code's t)
UniformDraw ==
  /\ pc = "uniform"
  /\ ri < Nnz(m, k, density)
  /\ \E r \in Draw(0, m - 1, m), c \in Draw(0, k - 1, k) :
       /\ cols' = [cols EXCEPT ![r] = Append(cols[r], c)]
       /\ vals' = [vals EXCEPT ![r] = Append(vals[r], nvals + 1)]
       /\ gen' = [gen EXCEPT ![r] = gen[r] \cup {<<c, nvals + 1>>}]
  /\ nvals' = nvals + 1
  /\ ranges' = ranges \cup {<<0, k - 1>>}
  /\ ri' = IF ri + 1 < Nnz(m, k, density) THEN ri + 1 ELSE 0
  /\ pc' = IF ri + 1 < Nnz(m, k, density) THEN "uniform" ELSE "fixup"
  /\ UNCHANGED nonCsrVars
  /\ UNCHANGED <<m, k, density, pattern, rowptr, colidx, values, outcome>>

\* uniform: one iteration of the loop over the rows (i is the code's r):
\* the fallback entry of an empty row, the index sort, the de-duplication
UniformRow ==
  /\ pc = "fixup"
  /\ ri < m
  /\ \E c \in Draw(0, k - 1, k) :
       LET empty == cols[ri] = <<>>
           rc == IF empty THEN <<c>> ELSE cols[ri]
           rv == IF empty THEN <<nvals + 1>> ELSE vals[ri]
       IN  /\ empty \/ c = 0
           /\ \E idx \in SortedIdx(rc) :
                LET out == DedupLoop(rc, rv, idx, 1, -1, <<>>, <<>>)
                IN  /\ cols' = [cols EXCEPT ![ri] = out[1]]
                    /\ vals' = [vals EXCEPT ![ri] = out[2]]
           /\ nvals' = IF empty THEN nvals + 1 ELSE nvals
           /\ gen' = IF empty THEN [gen EXCEPT ![ri] = {<<c, nvals + 1>>}] ELSE gen
           /\ ranges' = IF empty THEN ranges \cup {<<0, k - 1>>} ELSE ranges
  /\ ri' = IF ri + 1 < m THEN ri + 1 ELSE 0
  /\ pc' = IF ri + 1 < m THEN "fixup" ELSE "rowptr"
  /\ UNCHANGED nonCsrVars
  /\ UNCHANGED <<m, k, density, pattern, rowptr, colidx, values, outcome>>

\* the prefix sum over the rows' sizes
PrefixSum ==
  /\ pc = "rowptr"
  /\ rowptr' = RowPtr(cols, m)
  /\ pc' = "concat"
  /\ UNCHANGED nonCsrVars
  /\ UNCHANGED <<m, k, density, pattern, ri, cols, vals, nvals, gen, ranges,
                 colidx, values, outcome>>

\* resize colidx / values to total, copy the rows in order, return A
Concat ==
  /\ pc = "concat"
  /\ colidx' = ConcatRows(cols, cols, 0, m)
  /\ values' = ConcatRows(cols, vals, 0, m)
  /\ pc' = "done"
  /\ outcome' = "csr"
  /\ UNCHANGED nonCsrVars
  /\ UNCHANGED <<m, k, density, pattern, ri, cols, vals, nvals, gen, ranges, rowptr>>

NextCsr ==
  \/ Dispatch
  \/ BandRow
  \/ BlockdiagRow
  \/ UniformDraw
  \/ UniformRow
  \/ PrefixSum
  \/ Concat

\* the SpMM kernels at rest
SpmmIdle ==
  /\ csrA = <<>> /\ sn = 1 /\ jblock = 1 /\ layoutB = "row"
  /\ sB = <<>> /\ sC = <<>> /\ sCv = <<>>
  /\ spc = "off"
  /\ si = 0 /\ sj0 = 0
  /\ scnt = <<>> /\ scntv = <<>>
  /\ soob = FALSE /\ slaneOut = FALSE /\ scalls = 0

\* no buffer exists
BufIdle ==
  /\ heap = <<>> /\ htop = 0 /\ bufs = <<>> /\ bpc = "off" /\ bops = 0
  /\ bN = 0 /\ biters = 0 /\ bit = 0 /\ bdata = <<>>

\* no single row is examined
IdxIdle ==
  /\ idx_m = 1 /\ idx_k = 1 /\ idx_n = 1 /\ idx_size = <<0, 0, 0>>
  /\ idx_expr = "none" /\ idx_math = 0 /\ idx_off = <<"ok", 0>> /\ idx_limit = 0
  /\ idx_pc = "off"

MapIdle ==
  /\ map_nb = 1 /\ map_head = <<>> /\ map_last = <<>> /\ map_hist = <<>>
  /\ map_ret = <<"none", 0, 0, 0>> /\ map_before = <<>> /\ map_ops = -1

HtIdle ==
  /\ ht_impl = "coarse" /\ ht_nb = 1 /\ ht_head = <<>> /\ ht_lock = <<>> /\ ht_pc = <<>>
  /\ ht_call = <<>> /\ ht_pos = <<>> /\ ht_node = <<>> /\ ht_ret = <<>> /\ ht_left = -1
  /\ ht_abs = <<>> /\ ht_absret = <<>> /\ ht_acq = <<>> /\ ht_nolock = FALSE /\ ht_net = 0

RowIdle ==
  /\ row_m = 1 /\ row_k = 1 /\ row_density = <<1, 1>> /\ row_pattern = "band"
  /\ row_i = 0 /\ row_cols = <<>> /\ row_pc = "off"

\* no statistics are examined
StatIdle ==
  /\ stat_src = "client" /\ stat_pc = "off" /\ samples = <<>> /\ samples0 = <<>>
  /\ seconds = 0 /\ p50 = 0 /\ p95 = 0 /\ p99 = 0 /\ stat_reads = {}

\* the driver is not examined
DrvIdle ==
  /\ bench_kernel = "gemm" /\ bench_pc = "off" /\ bench_r = 0 /\ bench_t0 = 0
  /\ call_times = <<>> /\ clock = 0 /\ kernel_calls = 0 /\ timed_calls = 0

\* no caller is examined
DetIdle ==
  /\ deng = 0 /\ dbuild = <<>> /\ dcalls = 0 /\ dref = <<>> /\ drepeat = <<>>
  /\ dreps = 0 /\ dbetween = 0

\* no call's loop headers are examined
TermIdle == tjob = <<>> /\ tctr = <<>> /\ tdepth = 0 /\ tpc = "off"

\* no parallel region is examined
ParIdle ==
  /\ pjob = <<>> /\ pthreads = 1 /\ powner = <<>> /\ pphase = "off" /\ pstmts = <<>>
  /\ pmem = <<>> /\ pmem0 = <<>> /\ ppos = <<>> /\ ptmp = <<>>
  /\ preads = <<>> /\ pwrites = <<>>

\* the GEMM kernels at rest
GemmOff ==
  /\ gm = 1 /\ gk = 1 /\ gn = 1
  /\ tileM = 1 /\ tileK = 1 /\ tileN = 1
  /\ A = <<>> /\ B = <<>> /\ C = <<>> /\ Cv = <<>> /\ C0 = <<>> /\ Cfirst = <<>>
  /\ gpc = "off"
  /\ ii = 0 /\ kk = 0 /\ jj = 0
  /\ cnt = <<>> /\ cntv = <<>>
  /\ oob = FALSE /\ laneOut = FALSE /\ zeroed = FALSE /\ calls = 0

\* the GEMM kernels at rest, while make_random_csr is examined
GemmIdle == GemmOff /\ arith = "exact"

Init == InitCsr /\ GemmIdle /\ SpmmIdle /\ ParIdle /\ TermIdle /\ BufIdle /\ DetIdle /\ DrvIdle /\ StatIdle /\ RowIdle /\ IdxIdle /\ MapIdle /\ HtIdle

Spec == Init /\ [][NextCsr]_vars

----------------------------------------------------------------------------
(* make_random_csr: properties *)

\* the positions of colidx / values that hold row r: the code's
\* [rowptr[r], rowptr[r+1]) shifted by one
RowRange(r) == (rowptr[r] + 1) .. rowptr[r + 1]

NamedPatterns == {"uniform", "band", "blockdiag"}

\* C1: in the returned CSR every row's column indices are strictly increasing
\* (sorted, no duplicate), for every pattern, density and sequence of draws.
C1_RowsStrictlyIncreasing ==
  pc = "done" =>
    \A r \in 0 .. m - 1 :
      \A p \in RowRange(r) : p + 1 \in RowRange(r) => colidx[p] < colidx[p + 1]

\* a returned CSR with a row of two or more entries, built from draws that
\* held a duplicate column (more values were drawn than entries are stored)
C1_Witness ==
  /\ pc = "done"
  /\ nvals > Len(colidx)
  /\ \E r \in 0 .. m - 1 : rowptr[r + 1] - rowptr[r] >= 2

\* C2: every row of the returned CSR holds at least one entry, also for a
\* density <= 0, and the call ends by returning a CSR, never by an error.
C2_EveryRowNonEmpty ==
  /\ outcome \in {"pending", "csr"}
  /\ pc = "done" =>
       /\ outcome = "csr"
       /\ \A r \in 0 .. m - 1 : rowptr[r + 1] > rowptr[r]

\* a uniform CSR built with a density <= 0 in which a row the draws missed
\* received the fallback entry (one vdist draw more than the nnz draws)
C2_Witness ==
  /\ pc = "done"
  /\ density[1] <= 0
  /\ Branch(pattern) = "uniform"
  /\ nvals > Nnz(m, k, density)

\* C3: rowptr has length m+1, starts at 0, never decreases, ends at nnz, is the
\* prefix sum of the rows' entry counts, and colidx and values have length nnz.
C3_RowptrPrefixSum ==
  pc = "done" =>
    /\ DOMAIN rowptr = 0 .. m
    /\ rowptr[0] = 0
    /\ \A r \in 0 .. m - 1 : rowptr[r] <= rowptr[r + 1]
    /\ \A r \in 0 .. m - 1 : rowptr[r + 1] - rowptr[r] = Len(cols[r])
    /\ rowptr[m] = Len(values)
    /\ Len(colidx) = Len(values)

\* a returned CSR of two rows or more whose rows differ in size and one of
\* whose rows lost a duplicate column (its vals vector is longer than its cols)
C3_Witness ==
  /\ pc = "done"
  /\ \E r \in 0 .. m - 1 : Len(vals[r]) > Len(cols[r])
  /\ \E r, q \in 0 .. m - 1 : Len(cols[r]) # Len(cols[q])

\* C4: every stored column index lies in [0, k), and every column range a
\* distribution is drawn from is a non-empty sub-range of [0, k-1].
C4_ColumnsInRange ==
  /\ \A rg \in ranges : 0 <= rg[1] /\ rg[1] <= rg[2] /\ rg[2] <= k - 1
  /\ pc = "done" => \A p \in 1 .. Len(colidx) : colidx[p] \in 0 .. k - 1

\* C5: every stored (column, value) entry of a row is a pair that was drawn
\* together for that row, and every column drawn for the row is stored.
C5_PairsKeptTogether ==
  pc = "done" =>
    \A r \in 0 .. m - 1 :
      /\ \A p \in RowRange(r) : <<colidx[p], values[p]>> \in gen[r]
      /\ \A g \in gen[r] : \E p \in RowRange(r) : colidx[p] = g[1]

\* C6 as stated: uniform with density 1.0 returns the fully dense matrix:
\* rowptr[i] = i*k and row i holds the columns 0 .. k-1.
C6_UniformFullyDense ==
  (pc = "done" /\ pattern = "uniform" /\ density = <<1, 1>>) =>
    /\ \A r \in 0 .. m : rowptr[r] = r * k
    /\ \A r \in 0 .. m - 1 : \A c \in 0 .. k - 1 : colidx[rowptr[r] + 1 + c] = c

\* C6 as amended: uniform with density 1.0 draws m*k cells with replacement;
\* row i holds between 1 and k columns of [0, k), so i <= rowptr[i] <= i*k, and
\* the result is fully dense exactly when the draws hit every cell.
C6_UniformDensityOne ==
  (pc = "done" /\ pattern = "uniform" /\ density = <<1, 1>>) =>
    /\ \A r \in 0 .. m : r <= rowptr[r] /\ rowptr[r] <= r * k
    /\ \A p \in 1 .. Len(colidx) : colidx[p] \in 0 .. k - 1
    /\ (rowptr[m] = m * k) <=>
         (\A r \in 0 .. m - 1 : \A c \in 0 .. k - 1 : \E g \in gen[r] : g[1] = c)

\* a uniform CSR built with density 1.0, of two rows and two columns or more,
\* that is not dense
C6_Witness ==
  /\ pc = "done"
  /\ pattern = "uniform"
  /\ density = <<1, 1>>
  /\ m >= 2
  /\ k >= 2
  /\ rowptr[m] < m * k

\* C7: a call with a pattern name that is none of the named ones ends with an
\* explicit "unrecognized" outcome and not with a generated matrix.
C7_UnknownPatternSurfaced ==
  (pc = "done" /\ pattern \notin NamedPatterns) => outcome = "unrecognized"

----------------------------------------------------------------------------
(* GEMM: inputs *)

\* the values of n: small ones, one full vector plus a tail, two vectors plus a tail
NDims == (1 .. MaxDim) \cup {Lanes + 1, 2 * Lanes + 1}

\* a tile size of d+1 is larger than the dimension d; every larger one behaves the same
TileSizes(d) == 1 .. (d + 1)

\* for n: the small tiles, the multiples of a vector and their successors, n and n+1
TileNs(n) == {x \in 1 .. (n + 1) : x <= 3 \/ x % Lanes <= 1 \/ x >= n}

Seeds == {0}

\* the state of the pseudo-random engine after `steps` draws: a full-period
\* congruential generator stands for std::mt19937_64
RECURSIVE RngState(_, _)
RngState(seed, steps) ==
  IF steps = 0 THEN seed % 16 ELSE (5 * RngState(seed, steps - 1) + 3) % 16

\* fill_random: x[i] is the i-th draw of an engine seeded with `seed`;
\* the values are the integers -3 .. 3 instead of floats of [-1, 1)
FillRandom(n, seed) == [x \in 0 .. n - 1 |-> (RngState(seed, x + 1) % 7) - 3]

\* zero_fill
ZeroBuf(n) == [x \in 0 .. n - 1 |-> 0]

Identity(d) == [x \in 0 .. d * d - 1 |-> IF x \div d = x % d THEN 1 ELSE 0]

ScenarioB == [x \in 0 .. 3 |-> 5 + x]

NoCount == [x \in (0 .. gk - 1) \X (0 .. gm * gn - 1) |-> 0]

----------------------------------------------------------------------------
(* GEMM: the loop nests.  A tile's loops yield, in program order, the        *)
(* multiply-adds they execute: <<i, t, cx, bx, bad, fused>> stands for       *)
(* C[cx] += A[i*k + t] * B[bx]; bad marks a lane of an 8-lane access that    *)
(* lies at a column >= j_end, fused a lane of _mm256_fmadd_ps.               *)

\* the spacing of the float format at magnitude a >= 0
RECURSIVE Ulp(_)
Ulp(a) == IF a < 2 ^ MantBits THEN 1 ELSE 2 * Ulp(a \div 2)

\* a >= 0 rounded to a multiple of u, ties to the even multiple
RoundToEven(a, u) ==
  LET q == a \div u
      r == a % u
  IN  IF 2 * r < u THEN q * u
      ELSE IF 2 * r > u THEN (q + 1) * u
      ELSE IF q % 2 = 0 THEN q * u ELSE (q + 1) * u

\* the result of one float operation whose exact value is x: x itself in
\* exact arithmetic, x rounded to MantBits significant bits otherwise
Fl(x) ==
  IF arith = "exact" THEN x
  ELSE IF x >= 0 THEN RoundToEven(x, Ulp(x)) ELSE -RoundToEven(-x, Ulp(-x))

\* a store of a * b in place of the accumulation
Overwrite(old, a, b) == Fl(a * b)

\* c += a * b: a rounded product, then a rounded sum
Accumulate(old, a, b) == Fl(old + Fl(a * b))

\* _mm256_fmadd_ps: a * b + c with one rounding
FusedAccumulate(old, a, b) == Fl(old + a * b)

IEnd == Min2(gm, ii + tileM)

\* a k_end without the clamp to k
KEndNoClamp == kk + tileK

KEnd == Min2(gk, kk + tileK)

JEnd == Min2(gn, jj + tileN)

\* a vector end rounded up to the next multiple of the lane count
JVecEndRoundUp == jj + ((JEnd - jj + Lanes - 1) \div Lanes) * Lanes

JVecEnd == jj + ((JEnd - jj) \div Lanes) * Lanes

\* scalar: for (j = jj; j < j_end; j++) c[j - jj] += a * b[j - jj],
\* with c = &C[i*n + jj] and b = &B[t*n + jj]
RECURSIVE ScalarJ(_, _, _)
ScalarJ(i, t, j) ==
  IF j >= JEnd THEN <<>>
  ELSE <<<<i, t, i * gn + jj + (j - jj), t * gn + jj + (j - jj), FALSE, FALSE>>>>
       \o ScalarJ(i, t, j + 1)

RECURSIVE ScalarT(_, _)
ScalarT(i, t) == IF t >= KEnd THEN <<>> ELSE ScalarJ(i, t, jj) \o ScalarT(i, t + 1)

RECURSIVE ScalarI(_)
ScalarI(i) == IF i >= IEnd THEN <<>> ELSE ScalarT(i, kk) \o ScalarI(i + 1)

\* the body of the jj loop of gemm_tiled_scalar for the tile (ii, kk, jj)
ScalarTile == ScalarI(ii)

\* AVX2: one loadu / loadu / fmadd / storeu at b + (j - jj), c + (j - jj):
\* lane l updates column j + l
VecLanes(i, t, j) ==
  [l \in 1 .. Lanes |->
     <<i, t, i * gn + jj + (j - jj) + (l - 1), t * gn + jj + (j - jj) + (l - 1),
       j + (l - 1) >= JEnd, TRUE>>]

\* for (j = jj; j < j_vec_end; j += 8)
RECURSIVE VecJ(_, _, _)
VecJ(i, t, j) ==
  IF j >= JVecEnd THEN <<>> ELSE VecLanes(i, t, j) \o VecJ(i, t, j + Lanes)

\* for (j = j_vec_end; j < j_end; j++) C[i*n + j] += A[i*k + t] * B[t*n + j]
RECURSIVE TailJ(_, _, _)
TailJ(i, t, j) ==
  IF j >= JEnd THEN <<>>
  ELSE <<<<i, t, i * gn + j, t * gn + j, FALSE, FALSE>>>> \o TailJ(i, t, j + 1)

RECURSIVE Avx2T(_, _)
Avx2T(i, t) ==
  IF t >= KEnd THEN <<>>
  ELSE VecJ(i, t, jj) \o TailJ(i, t, JVecEnd) \o Avx2T(i, t + 1)

RECURSIVE Avx2I(_)
Avx2I(i) == IF i >= IEnd THEN <<>> ELSE Avx2T(i, kk) \o Avx2I(i + 1)

\* the body of the jj loop of gemm_tiled_avx2 for the tile (ii, kk, jj)
Avx2Tile == Avx2I(ii)

\* a multiply-add that stays inside the three buffers
InBuffers(u) ==
  /\ (u[1] * gk + u[2]) \in DOMAIN A
  /\ u[3] \in DOMAIN C
  /\ u[4] \in DOMAIN B

\* the multiply-adds of us, in order, on one element of C
RECURSIVE FoldElem(_, _)
FoldElem(old, us) ==
  IF us = <<>> THEN old
  ELSE FoldElem(IF us[1][6]
                THEN FusedAccumulate(old, A[us[1][1] * gk + us[1][2]], B[us[1][4]])
                ELSE Accumulate(old, A[us[1][1] * gk + us[1][2]], B[us[1][4]]),
                Tail(us))

\* the buffer after the multiply-adds ups
ApplyTile(buf, ups) ==
  [cx \in DOMAIN buf |->
     FoldElem(buf[cx], SelectSeq(ups, LAMBDA u : InBuffers(u) /\ u[3] = cx))]

\* the accumulation counts after the multiply-adds ups
CountTile(n, ups) ==
  [x \in DOMAIN n |->
     n[x] + Cardinality({p \in DOMAIN ups : ups[p][2] = x[1] /\ ups[p][3] = x[2]})]

\* a multiply-add of ups left a buffer or lies at a column >= j_end
Strays(ups) == \E p \in DOMAIN ups : ~InBuffers(ups[p]) \/ ups[p][5]

\* the three for-loop headers: the tile that follows (ii, kk, jj)
NextTile ==
  IF jj + tileN < gn THEN <<ii, kk, jj + tileN>>
  ELSE IF kk + tileK < gk THEN <<ii, kk + tileK, 0>>
  ELSE <<ii + tileM, 0, 0>>

----------------------------------------------------------------------------
(* GEMM: the calls *)

\* make_random_csr at rest, while the GEMM kernels are examined
CsrIdle ==
  /\ m = 1 /\ k = 1 /\ density = <<1, 1>> /\ pattern = "uniform"
  /\ pc = "off" /\ ri = 0
  /\ cols = <<>> /\ vals = <<>> /\ nvals = 0 /\ gen = <<>> /\ ranges = {}
  /\ rowptr = <<>> /\ colidx = <<>> /\ values = <<>>
  /\ outcome = "pending"

\* the driver's set-up: the buffers are allocated, A and B are filled, C is
\* not yet written (it holds whatever the allocation left there)
InitGemm ==
  /\ gm \in 1 .. (MaxDim + 1)
  /\ gk \in 1 .. (MaxDim + 1)
  /\ gn \in NDims
  /\ gm > MaxDim => (gk = 1 /\ gn = 1)
  /\ gk > MaxDim => (gm = 1 /\ gn = 1)
  /\ gn > 2 * Lanes => (gm = 1 /\ gk = 1)
  /\ gn <= MaxDim => gm * gk * gn <= MaxCells
  /\ tileM \in TileSizes(gm)
  /\ tileK \in TileSizes(gk)
  /\ tileN \in TileNs(gn)
  /\ \E seed \in Seeds, ident \in BOOLEAN :
       /\ ident => (gm = gk /\ seed = 0)
       /\ A = IF ident THEN Identity(gm) ELSE FillRandom(gm * gk, seed + 2)
       /\ B = IF ident /\ gk = 2 /\ gn = 2 THEN ScenarioB ELSE FillRandom(gk * gn, seed + 5)
  /\ C = FillRandom(gm * gn, 11)
  /\ Cv = C
  /\ C0 = C
  /\ Cfirst = ZeroBuf(gm * gn)
  /\ gpc = "idle"
  /\ ii = 0 /\ kk = 0 /\ jj = 0
  /\ cnt = NoCount
  /\ cntv = NoCount
  /\ oob = FALSE
  /\ laneOut = FALSE
  /\ zeroed = FALSE
  /\ calls = 0
  /\ arith \in {"exact", "float"}

\* zero_fill(C.ptr, C.count)
ZeroFill ==
  /\ gpc = "idle"
  /\ ~(zeroed /\ calls = 0)
  /\ C' = ZeroBuf(gm * gn)
  /\ Cv' = ZeroBuf(gm * gn)
  /\ Cfirst' = ZeroBuf(gm * gn)
  /\ zeroed' = TRUE
  /\ calls' = 0
  /\ UNCHANGED nonGemmVars
  /\ UNCHANGED <<gm, gk, gn, tileM, tileK, tileN, A, B, C0, gpc, ii, kk, jj,
                 cnt, cntv, oob, laneOut, arith>>

\* entry of gemm_tiled_scalar / gemm_tiled_avx2: ii = kk = jj = 0.  The driver
\* zero-fills C before each call; a caller may also call again on the C of the
\* call before, and call once on a C left as allocated
GemmCall ==
  /\ gpc = "idle"
  /\ calls < MaxCalls
  /\ zeroed \/ calls = 0
  /\ gpc' = "run"
  /\ C0' = C
  /\ ii' = 0 /\ kk' = 0 /\ jj' = 0
  /\ cnt' = NoCount
  /\ cntv' = NoCount
  /\ UNCHANGED nonGemmVars
  /\ UNCHANGED <<gm, gk, gn, tileM, tileK, tileN, A, B, C, Cv, Cfirst,
                 oob, laneOut, zeroed, calls, arith>>

\* one tile (ii, kk, jj) of both kernels, then the loop headers; the call
\* returns when ii reaches m
GemmTile ==
  /\ gpc = "run"
  /\ LET s == ScalarTile
         v == Avx2Tile
         nt == NextTile
         done == nt[1] >= gm
     IN  /\ C' = ApplyTile(C, s) /\ cnt' = CountTile(cnt, s) /\ oob' = (oob \/ Strays(s))
         /\ Cv' = ApplyTile(Cv, v) /\ cntv' = CountTile(cntv, v)
         /\ laneOut' = (laneOut \/ Strays(v))
         /\ ii' = nt[1] /\ kk' = nt[2] /\ jj' = nt[3]
         /\ gpc' = IF done THEN "idle" ELSE "run"
         /\ calls' = IF done THEN calls + 1 ELSE calls
         /\ Cfirst' = IF done /\ zeroed /\ calls = 0 THEN ApplyTile(C, s) ELSE Cfirst
  /\ UNCHANGED nonGemmVars
  /\ UNCHANGED <<gm, gk, gn, tileM, tileK, tileN, A, B, C0, zeroed, arith>>

NextGemm ==
  \/ ZeroFill
  \/ GemmCall
  \/ GemmTile

InitSpecGemm == InitGemm /\ CsrIdle /\ SpmmIdle /\ ParIdle /\ TermIdle /\ BufIdle /\ DetIdle /\ DrvIdle /\ StatIdle /\ RowIdle /\ IdxIdle /\ MapIdle /\ HtIdle

SpecGemm == InitSpecGemm /\ [][NextGemm]_vars

----------------------------------------------------------------------------
(* GEMM: properties *)

\* sum over t of A[r][t] * B[t][c], by the definition of the matrix product
RECURSIVE Dot(_, _, _)
Dot(r, c, t) == IF t >= gk THEN 0 ELSE A[r * gk + t] * B[t * gn + c] + Dot(r, c, t + 1)

\* v after the products of element (r, c) are added to it one by one, t ascending,
\* each product and each sum rounded
RECURSIVE AddProducts(_, _, _, _)
AddProducts(v, r, c, t) ==
  IF t >= gk THEN v
  ELSE AddProducts(Fl(v + Fl(A[r * gk + t] * B[t * gn + c])), r, c, t + 1)

\* v after n such passes
RECURSIVE Passes(_, _, _, _)
Passes(v, r, c, n) == IF n = 0 THEN v ELSE Passes(AddProducts(v, r, c, 0), r, c, n - 1)

IsIdentity == gm = gk /\ A = Identity(gm)

\* C8: after a call of gemm_tiled_scalar, over exact arithmetic,
\* C[i][j] = C0[i][j] + sum over t of A[i][t] * B[t][j] for every (i, j);
\* every product (i, t, j) was accumulated exactly once and no access left
\* the buffers; with C0 = 0 and A the identity, C = B.
C8_GemmScalarCorrect ==
  /\ ~oob
  /\ \A x \in DOMAIN cnt : cnt[x] <= 1
  /\ (gpc = "idle" /\ calls >= 1) =>
       /\ \A x \in DOMAIN cnt : cnt[x] = 1
       /\ arith = "exact" =>
            /\ \A r \in 0 .. gm - 1 : \A c \in 0 .. gn - 1 :
                 C[r * gn + c] = C0[r * gn + c] + Dot(r, c, 0)
            /\ (IsIdentity /\ C0 = ZeroBuf(gm * gn)) => C = B

\* a finished exact call on a non-zero initial C, with a tileM that does not
\* divide m and a tileN larger than n
C8_Witness ==
  /\ gpc = "idle"
  /\ calls >= 1
  /\ arith = "exact"
  /\ C0 # ZeroBuf(gm * gn)
  /\ tileM < gm
  /\ gm % tileM # 0
  /\ tileN > gn
  /\ C # C0

\* C9 as stated: after zero_fill and two calls of the same GEMM, every
\* element of C is exactly twice its value after zero_fill and one call.
C9_TwiceExactly ==
  (gpc = "idle" /\ zeroed /\ calls = 2) =>
    \A x \in DOMAIN C : C[x] = 2 * Cfirst[x]

\* C9 as amended: a call adds the products onto what C holds: after zero_fill
\* and c calls every element is the result of c passes that add its k products
\* in order onto the running value.  That is exactly c times the single-call
\* value over exact arithmetic, and exactly twice it after two calls when
\* k = 1; with k >= 2 the float sums round differently once C is non-zero.
C9_GemmAccumulates ==
  (gpc = "idle" /\ zeroed /\ calls >= 1) =>
    /\ \A r \in 0 .. gm - 1 : \A c \in 0 .. gn - 1 :
         /\ C[r * gn + c] = Passes(0, r, c, calls)
         /\ Cfirst[r * gn + c] = Passes(0, r, c, 1)
    /\ arith = "exact" => \A x \in DOMAIN C : C[x] = calls * Cfirst[x]
    /\ (gk = 1 /\ calls = 2) => \A x \in DOMAIN C : C[x] = 2 * Cfirst[x]

\* two float calls were made after a zero_fill, with k >= 2, and an element
\* differs from twice its single-call value
C9_Witness ==
  /\ gpc = "idle"
  /\ zeroed
  /\ calls = 2
  /\ arith = "float"
  /\ gk >= 2
  /\ \E x \in DOMAIN C : C[x] # 0 /\ C[x] # 2 * Cfirst[x]

----------------------------------------------------------------------------
(* SpMM: inputs *)

\* the rows a CSR operand is built from: empty, one non-zero in the first or
\* in the last column, every column; each sorted
RowChoices(kc) == {<<>>, <<0>>, <<kc - 1>>, [x \in 1 .. kc |-> x - 1]}

\* the values of the non-zeros, in storage order
CsrValues(nz) == [p \in 1 .. nz |-> FillRandom(nz, 2)[p - 1]]

\* the CSR whose row r holds the columns cs[r]
CsrOf(mm, kc, cs) ==
  [m |-> mm, k |-> kc,
   rowptr |-> RowPtr(cs, mm),
   colidx |-> ConcatRows(cs, cs, 0, mm),
   values |-> CsrValues(TotalBefore(cs, mm))]

Layouts == {"row", "col"}

SpNoCount == [x \in (0 .. Len(csrA.values) - 1) \X (0 .. csrA.m * sn - 1) |-> 0]

----------------------------------------------------------------------------
(* SpMM: the loop nests.  The loops of a (row, column block) yield, in       *)
(* program order, the multiply-adds they execute: <<p, cx, bx, bad, fused>>  *)
(* stands for C[cx] += values[p] * B[bx]; bad marks a lane of an 8-lane      *)
(* access at an index >= n of crow / brow, fused a lane of _mm256_fmadd_ps.  *)

SpP0 == csrA.rowptr[si]
SpP1 == csrA.rowptr[si + 1]

SpJ1 == Min2(sn, sj0 + jblock)

\* a vector end rounded up to the next multiple of the lane count
SpJVecEndRoundUp == sj0 + ((SpJ1 - sj0 + Lanes - 1) \div Lanes) * Lanes

SpJVecEnd == sj0 + ((SpJ1 - sj0) \div Lanes) * Lanes

\* the index getB(col, j) reads
GetB(col, j) == IF layoutB = "row" THEN col * sn + j ELSE j * csrA.k + col

\* scalar: for (j = j0; j < j1; j++) crow[j] += a * getB(col, j)
RECURSIVE SpScalarJ(_, _)
SpScalarJ(p, j) ==
  IF j >= SpJ1 THEN <<>>
  ELSE <<<<p, si * sn + j, GetB(csrA.colidx[p + 1], j), FALSE, FALSE>>>>
       \o SpScalarJ(p, j + 1)

\* for (p = p0; p < p1; p++)
RECURSIVE SpScalarP(_)
SpScalarP(p) == IF p >= SpP1 THEN <<>> ELSE SpScalarJ(p, sj0) \o SpScalarP(p + 1)

\* the body of the j0 loop of spmm_csr_scalar for (i, j0)
SpScalarBlock == SpScalarP(SpP0)

\* AVX2: one loadu / loadu / fmadd / storeu at brow + j, crow + j
SpVecLanes(p, j) ==
  [l \in 1 .. Lanes |->
     <<p, si * sn + j + (l - 1), csrA.colidx[p + 1] * sn + j + (l - 1),
       j + (l - 1) >= sn, TRUE>>]

\* for (j = j0; j < j_vec_end; j += 8)
RECURSIVE SpVecJ(_, _)
SpVecJ(p, j) == IF j >= SpJVecEnd THEN <<>> ELSE SpVecLanes(p, j) \o SpVecJ(p, j + Lanes)

\* for (j = j_vec_end; j < j1; j++) crow[j] += a * brow[j]
RECURSIVE SpTailJ(_, _)
SpTailJ(p, j) ==
  IF j >= SpJ1 THEN <<>>
  ELSE <<<<p, si * sn + j, csrA.colidx[p + 1] * sn + j, FALSE, FALSE>>>> \o SpTailJ(p, j + 1)

RECURSIVE SpAvx2P(_)
SpAvx2P(p) ==
  IF p >= SpP1 THEN <<>>
  ELSE SpVecJ(p, sj0) \o SpTailJ(p, SpJVecEnd) \o SpAvx2P(p + 1)

\* the body of the j0 loop of spmm_csr_avx2 for (i, j0): the scalar kernel's
\* when B is not row-major
SpAvx2Block == IF layoutB # "row" THEN SpScalarBlock ELSE SpAvx2P(SpP0)

\* a multiply-add that stays inside values, C and B
SpInArrays(u) ==
  /\ (u[1] + 1) \in DOMAIN csrA.values
  /\ u[2] \in DOMAIN sC
  /\ u[3] \in DOMAIN sB

\* the multiply-adds of us, in order, on one element of C
RECURSIVE SpFoldElem(_, _)
SpFoldElem(old, us) ==
  IF us = <<>> THEN old
  ELSE SpFoldElem(IF us[1][5]
                  THEN FusedAccumulate(old, csrA.values[us[1][1] + 1], sB[us[1][3]])
                  ELSE Accumulate(old, csrA.values[us[1][1] + 1], sB[us[1][3]]),
                  Tail(us))

\* the buffer after the multiply-adds ups
SpApply(buf, ups) ==
  [cx \in DOMAIN buf |->
     SpFoldElem(buf[cx], SelectSeq(ups, LAMBDA u : SpInArrays(u) /\ u[2] = cx))]

\* the accumulation counts after the multiply-adds ups
SpCount(n, ups) ==
  [x \in DOMAIN n |->
     n[x] + Cardinality({q \in DOMAIN ups : ups[q][1] = x[1] /\ ups[q][2] = x[2]})]

\* a multiply-add of ups left an array or lies at an index >= n of its row
SpStrays(ups) == \E q \in DOMAIN ups : ~SpInArrays(ups[q]) \/ ups[q][4]

\* the two for-loop headers: the (i, j0) that follows
SpNextBlock == IF sj0 + jblock < sn THEN <<si, sj0 + jblock>> ELSE <<si + 1, 0>>

\* a kernel entry that leaves C as it finds it
KeepContents(buf) == buf

\* zero_fill(C, m * n) at the kernel's entry
ZeroOnEntry(buf) == ZeroBuf(csrA.m * sn)

----------------------------------------------------------------------------
(* SpMM: the calls *)

\* the driver's set-up: A is built, B is filled, C is allocated and not yet
\* written (it holds whatever the allocation left there)
InitSpmm ==
  /\ \E mm \in 1 .. MaxDim, kc \in 1 .. MaxDim :
       \E cs \in [0 .. mm - 1 -> RowChoices(kc)] :
         /\ csrA = CsrOf(mm, kc, cs)
         /\ sn \in NDims
         /\ sn > MaxDim => mm = 1
         /\ sn <= MaxDim => mm * kc * sn <= MaxCells
         /\ sB = FillRandom(kc * sn, 5)
         /\ sC = FillRandom(mm * sn, 11)
  /\ sCv = sC
  /\ jblock \in TileNs(sn)
  /\ layoutB \in Layouts
  /\ spc = "ready"
  /\ si = 0 /\ sj0 = 0
  /\ scnt = SpNoCount
  /\ scntv = SpNoCount
  /\ soob = FALSE
  /\ slaneOut = FALSE
  /\ scalls = 0

\* entry of spmm_csr_scalar / spmm_csr_avx2: zero_fill(C, m * n), i = j0 = 0;
\* the driver calls again on the C of the call before
SpmmCall ==
  /\ spc \in {"ready", "done"}
  /\ scalls < MaxCalls
  /\ sC' = ZeroOnEntry(sC)
  /\ sCv' = ZeroOnEntry(sCv)
  /\ spc' = "run"
  /\ si' = 0 /\ sj0' = 0
  /\ scnt' = SpNoCount
  /\ scntv' = SpNoCount
  /\ UNCHANGED nonSpmmVars
  /\ UNCHANGED <<csrA, sn, jblock, layoutB, sB, soob, slaneOut, scalls>>

\* one (row i, column block j0) of both kernels, then the loop headers; the
\* call returns when i reaches m
SpmmBlock ==
  /\ spc = "run"
  /\ LET s == SpScalarBlock
         v == SpAvx2Block
         nb == SpNextBlock
         done == nb[1] >= csrA.m
     IN  /\ sC' = SpApply(sC, s) /\ scnt' = SpCount(scnt, s)
         /\ soob' = (soob \/ SpStrays(s))
         /\ sCv' = SpApply(sCv, v) /\ scntv' = SpCount(scntv, v)
         /\ slaneOut' = (slaneOut \/ SpStrays(v))
         /\ si' = nb[1] /\ sj0' = nb[2]
         /\ spc' = IF done THEN "done" ELSE "run"
         /\ scalls' = IF done THEN scalls + 1 ELSE scalls
  /\ UNCHANGED nonSpmmVars
  /\ UNCHANGED <<csrA, sn, jblock, layoutB, sB>>

NextSpmm ==
  \/ SpmmCall
  \/ SpmmBlock

InitSpecSpmm ==
  InitSpmm /\ CsrIdle /\ ParIdle /\ TermIdle /\ GemmOff /\ arith \in {"exact", "float"} /\ BufIdle /\ DetIdle /\ DrvIdle /\ StatIdle /\ RowIdle /\ IdxIdle /\ MapIdle /\ HtIdle

SpecSpmm == InitSpecSpmm /\ [][NextSpmm]_vars

----------------------------------------------------------------------------
(* SpMM: properties *)

\* the non-zeros of row r, as indices p of the code
RowNonZeros(r) == csrA.rowptr[r] .. (csrA.rowptr[r + 1] - 1)

\* B(c, j) of the layout
BAt(c, j) == IF layoutB = "row" THEN sB[c * sn + j] ELSE sB[j * csrA.k + c]

\* sum over the non-zeros p >= q of row r of values[p] * B(colidx[p], j)
RECURSIVE RowDot(_, _, _)
RowDot(r, j, q) ==
  IF q >= csrA.rowptr[r + 1] THEN 0
  ELSE csrA.values[q + 1] * BAt(csrA.colidx[q + 1], j) + RowDot(r, j, q + 1)

\* v after the products of the non-zeros p >= q of row r are added to it one
\* by one, each product and each sum rounded
RECURSIVE RowAddProducts(_, _, _, _)
RowAddProducts(v, r, j, q) ==
  IF q >= csrA.rowptr[r + 1] THEN v
  ELSE RowAddProducts(Fl(v + Fl(csrA.values[q + 1] * BAt(csrA.colidx[q + 1], j))),
                      r, j, q + 1)

\* C11: after a call of spmm_csr_scalar, for either layout and every jblock,
\* C[i][j] is the sum over the non-zeros p of row i of values[p] * B(colidx[p], j),
\* whatever C held before: every such product was accumulated exactly once, in
\* the order of p, onto zero, and no access left the arrays.  A row without
\* non-zeros is all zero; a row with one non-zero (c, v) is v times row c of B.
C11_SpmmScalarCorrect ==
  /\ ~soob
  /\ \A x \in DOMAIN scnt : scnt[x] <= 1
  /\ spc = "done" =>
       /\ \A x \in DOMAIN scnt :
            scnt[x] = IF x[1] \in RowNonZeros(x[2] \div sn) THEN 1 ELSE 0
       /\ \A r \in 0 .. csrA.m - 1 : \A j \in 0 .. sn - 1 :
            /\ sC[r * sn + j] = RowAddProducts(0, r, j, csrA.rowptr[r])
            /\ arith = "exact" => sC[r * sn + j] = RowDot(r, j, csrA.rowptr[r])
            /\ RowNonZeros(r) = {} => sC[r * sn + j] = 0
            /\ (Cardinality(RowNonZeros(r)) = 1 /\ arith = "exact") =>
                 sC[r * sn + j] =
                   csrA.values[csrA.rowptr[r] + 1] * BAt(csrA.colidx[csrA.rowptr[r] + 1], j)

\* a finished call on a C that held non-zero values, with several column
\* blocks, a row without non-zeros, a row with two, column-major B
C11_Witness ==
  /\ spc = "done"
  /\ scalls = 1
  /\ layoutB = "col"
  /\ jblock < sn
  /\ \E r \in 0 .. csrA.m - 1 : RowNonZeros(r) = {}
  /\ \E r \in 0 .. csrA.m - 1 : Cardinality(RowNonZeros(r)) = 2
  /\ \E x \in DOMAIN sC : sC[x] # 0 /\ sC[x] # FillRandom(csrA.m * sn, 11)[x]

\* C12: spmm_csr_avx2 leaves the same C as spmm_csr_scalar: with column-major
\* B it runs the scalar kernel; with row-major B the 8-lane loop and the scalar
\* tail together update every column of a block exactly once per non-zero, no
\* lane reaches an index >= n of crow or brow, and over exact arithmetic the
\* two kernels leave the same C.
C12_SpmmAvx2EqualsScalar ==
  /\ ~slaneOut
  /\ scntv = scnt
  /\ \A x \in DOMAIN scntv : scntv[x] <= 1
  /\ spc = "done" =>
       \A x \in DOMAIN scntv :
         scntv[x] = IF x[1] \in RowNonZeros(x[2] \div sn) THEN 1 ELSE 0
  /\ (arith = "exact" \/ layoutB = "col") => sCv = sC

\* a finished row-major call whose blocks held an 8-lane part and a scalar
\* tail, with n and jblock not multiples of 8
C12_Witness ==
  /\ spc = "done"
  /\ layoutB = "row"
  /\ arith = "exact"
  /\ sn > Lanes
  /\ sn % Lanes # 0
  /\ jblock > Lanes
  /\ jblock % Lanes # 0
  /\ \E x \in DOMAIN sCv : sCv[x] # 0

----------------------------------------------------------------------------
(* The parallel regions.  A statement of a loop body is                      *)
(*   [out, acc, x, y, rd]:  output[out] is assigned from x and y, reading    *)
(* the locations rd; acc tells whether the statement reads output[out]       *)
(* first (it is a +=).                                                       *)

\* the values lo, lo + st, ... below hi of a for loop with a positive step
Range(lo, hi, st) == [x \in 1 .. ((hi - lo + st - 1) \div st) |-> lo + (x - 1) * st]

RECURSIVE Flat(_)
Flat(ss) == IF ss = <<>> THEN <<>> ELSE Head(ss) \o Flat(Tail(ss))

\* an i_end one row beyond the block
ParIEndInclusive(job, i0) == Min2(job.m, i0 + job.tileM + 1)

\* i_end of the row block that starts at ii = i0
ParIEnd(job, i0) == Min2(job.m, i0 + job.tileM)

\* c[j - jj] += a * b[j - jj] for (i, t, j)
GemmStmt(job, i, t, j) ==
  [out |-> i * job.n + j, acc |-> TRUE,
   x |-> job.A[i * job.k + t], y |-> job.B[t * job.n + j],
   rd |-> {<<"A", i * job.k + t>>, <<"B", t * job.n + j>>}]

\* one iteration of the parallel loop of gemm_tiled_scalar: the kk, jj, i, t, j
\* loops for ii = i0
GemmIteration(job, i0) ==
  LET KKs == Range(0, job.k, job.tileK)
      JJs == Range(0, job.n, job.tileN)
  IN  Flat([a \in DOMAIN KKs |->
        Flat([b \in DOMAIN JJs |->
          Flat([i1 \in 1 .. (ParIEnd(job, i0) - i0) |->
            Flat([t1 \in 1 .. (Min2(job.k, KKs[a] + job.tileK) - KKs[a]) |->
              [j1 \in 1 .. (Min2(job.n, JJs[b] + job.tileN) - JJs[b]) |->
                 GemmStmt(job, i0 + i1 - 1, KKs[a] + t1 - 1, JJs[b] + j1 - 1)]])])])])

\* a crow that is the first row of C for every i
CRowShared(job, i) == 0

\* float* crow = &C[i * n]
CRow(job, i) == i * job.n

\* crow[j] += a * getB(col, j) for the non-zero p of row i
SpmmStmt(job, i, p, j) ==
  LET col == job.csr.colidx[p + 1]
      bx == IF job.layout = "row" THEN col * job.n + j ELSE j * job.csr.k + col
  IN  [out |-> CRow(job, i) + j, acc |-> TRUE,
       x |-> job.csr.values[p + 1], y |-> job.B[bx],
       rd |-> {<<"rowptr", i>>, <<"rowptr", i + 1>>, <<"colidx", p>>,
               <<"values", p>>, <<"B", bx>>}]

\* one iteration of the parallel loop of spmm_csr_scalar: the j0, p, j loops of row i
SpmmIteration(job, i) ==
  LET J0s == Range(0, job.n, job.jblock)
      pa == job.csr.rowptr[i]
      pb == job.csr.rowptr[i + 1]
  IN  Flat([b \in DOMAIN J0s |->
        Flat([p1 \in 1 .. (pb - pa) |->
          [j1 \in 1 .. (Min2(job.n, J0s[b] + job.jblock) - J0s[b]) |->
             SpmmStmt(job, i, pa + p1 - 1, J0s[b] + j1 - 1)]])])

\* a.ptr[i] = b.ptr[i] + s * c.ptr[i]
TriadStmt(job, i) ==
  [out |-> i, acc |-> FALSE, x |-> job.b[i], y |-> job.c[i],
   rd |-> {<<"b", i>>, <<"c", i>>, <<"s", 0>>}]

\* the iterations of the parallel loop, in the loop's order
ParIterations(job) ==
  IF job.kernel = "gemm"
    THEN LET IIs == Range(0, job.m, job.tileM)
         IN  [q \in DOMAIN IIs |-> GemmIteration(job, IIs[q])]
  ELSE IF job.kernel = "spmm"
    THEN [q \in 1 .. job.csr.m |-> SpmmIteration(job, q - 1)]
  ELSE [q \in 1 .. job.N |-> <<TriadStmt(job, q - 1)>>]

\* the array the region writes
OutArray(job) == IF job.kernel = "triad" THEN "a" ELSE "C"

\* volatile float s = 1.1f, as the rational 11/10
TriadS == <<11, 10>>

\* b + s * c, as a rational over the denominator of s
TriadValue(b, c) == <<TriadS[2] * b + TriadS[1] * c, TriadS[2]>>

\* what a statement stores, given the value its load read from output[out]
StoreValue(job, st, old) ==
  IF job.kernel = "triad" THEN TriadValue(st.x, st.y) ELSE Accumulate(old, st.x, st.y)

\* the statements of worker w, in the order it executes them: its iterations
\* in increasing order
WorkerStmts(w) ==
  LET its == ParIterations(pjob)
  IN  Flat([q \in DOMAIN its |-> IF powner[q] = w THEN its[q] ELSE <<>>])

\* the array after the statements sts are executed one after the other
RECURSIVE RunStmts(_, _, _)
RunStmts(job, mem, sts) ==
  IF sts = <<>> THEN mem
  ELSE RunStmts(job,
                [mem EXCEPT ![sts[1].out] = StoreValue(job, sts[1], mem[sts[1].out])],
                Tail(sts))

\* the calls whose parallel region is examined; a tile as large as the
\* dimension stands for every larger one
GemmJobs ==
  UNION {{[kernel |-> "gemm", m |-> mm, k |-> kc, n |-> nn,
           tileM |-> tm, tileK |-> tk, tileN |-> tn,
           A |-> FillRandom(mm * kc, 2), B |-> FillRandom(kc * nn, 5)] :
            tm \in 1 .. mm, tk \in 1 .. kc, tn \in 1 .. nn} :
         mm \in 1 .. MaxDim, kc \in 1 .. MaxDim, nn \in 1 .. MaxDim}

SpmmJobs ==
  UNION {{[kernel |-> "spmm", csr |-> CsrOf(mm, kc, cs), n |-> nn, jblock |-> jb,
           layout |-> lay, B |-> FillRandom(kc * nn, 5)] :
            cs \in [0 .. mm - 1 -> RowChoices(kc)], jb \in 1 .. nn, lay \in Layouts} :
         mm \in 1 .. MaxDim, kc \in 1 .. MaxDim, nn \in 1 .. MaxDim}

\* the triad's arrays: fill_random(b.ptr, N, 2), fill_random(c.ptr, N, 3)
TriadJobs ==
  {[kernel |-> "triad", N |-> nn, b |-> FillRandom(nn, 2), c |-> FillRandom(nn, 3)] :
     nn \in 1 .. MaxDim + 1}

\* the elements of the output array
OutSize(job) ==
  IF job.kernel = "gemm" THEN job.m * job.n
  ELSE IF job.kernel = "spmm" THEN job.csr.m * job.n
  ELSE job.N

\* the multiply-adds of the kernel
JobCells(job) ==
  IF job.kernel = "gemm" THEN job.m * job.k * job.n
  ELSE IF job.kernel = "spmm" THEN Len(job.csr.values) * job.n
  ELSE job.N

\* the output array when the kernel is entered: what the caller left in C,
\* fill_random(a.ptr, N, 1) for the triad
OutOnEntry(job) ==
  IF job.kernel = "triad" THEN FillRandom(job.N, 1) ELSE FillRandom(OutSize(job), 11)

Workers == 1 .. pthreads

InitPar ==
  /\ pjob \in GemmJobs \cup SpmmJobs \cup TriadJobs
  /\ JobCells(pjob) <= MaxParCells
  /\ pthreads \in 1 .. MaxThreads
  /\ powner \in [DOMAIN ParIterations(pjob) -> 1 .. pthreads]
  /\ pphase = "entry"
  /\ pstmts = [w \in 1 .. pthreads |-> <<>>]
  /\ pmem = OutOnEntry(pjob)
  /\ pmem0 = pmem
  /\ ppos = [w \in 1 .. pthreads |-> 0]
  /\ ptmp = [w \in 1 .. pthreads |-> 0]
  /\ preads = [w \in 1 .. pthreads |-> {}]
  /\ pwrites = [w \in 1 .. pthreads |-> {}]

\* the code before the parallel loop, run by the calling thread alone
\* (zero_fill in the SpMM kernels), then the fork: every worker gets the
\* iterations assigned to it
ParFork ==
  /\ pphase = "entry"
  /\ pphase' = "par"
  /\ pstmts' = [w \in Workers |-> WorkerStmts(w)]
  /\ pmem' = IF pjob.kernel = "spmm" THEN ZeroBuf(OutSize(pjob)) ELSE pmem
  /\ pmem0' = pmem'
  /\ UNCHANGED nonParVars
  /\ UNCHANGED <<pjob, pthreads, powner, ppos, ptmp, preads, pwrites>>

\* worker w reads the operands of its next statement
WorkerLoad(w) ==
  /\ pphase = "par"
  /\ ppos[w] % 2 = 0
  /\ ppos[w] < 2 * Len(pstmts[w])
  /\ LET st == pstmts[w][ppos[w] \div 2 + 1]
     IN  /\ ptmp' = [ptmp EXCEPT ![w] = IF st.acc THEN pmem[st.out] ELSE 0]
         /\ preads' = [preads EXCEPT ![w] =
              @ \cup st.rd \cup (IF st.acc THEN {<<OutArray(pjob), st.out>>} ELSE {})]
  /\ ppos' = [ppos EXCEPT ![w] = @ + 1]
  /\ UNCHANGED nonParVars
  /\ UNCHANGED <<pjob, pthreads, powner, pphase, pstmts, pmem, pmem0, pwrites>>

\* worker w stores the result of the statement it loaded for
WorkerStore(w) ==
  /\ pphase = "par"
  /\ ppos[w] % 2 = 1
  /\ LET st == pstmts[w][ppos[w] \div 2 + 1]
     IN  /\ pmem' = [pmem EXCEPT ![st.out] = StoreValue(pjob, st, ptmp[w])]
         /\ pwrites' = [pwrites EXCEPT ![w] = @ \cup {<<OutArray(pjob), st.out>>}]
  /\ ppos' = [ppos EXCEPT ![w] = @ + 1]
  /\ UNCHANGED nonParVars
  /\ UNCHANGED <<pjob, pthreads, powner, pphase, pstmts, pmem0, ptmp, preads>>

\* the implicit barrier at the end of the parallel loop
ParJoin ==
  /\ pphase = "par"
  /\ \A w \in Workers : ppos[w] = 2 * Len(pstmts[w])
  /\ pphase' = "joined"
  /\ UNCHANGED nonParVars
  /\ UNCHANGED <<pjob, pthreads, powner, pstmts, pmem, pmem0, ppos, ptmp, preads, pwrites>>

NextPar ==
  \/ ParFork
  \/ \E w \in Workers : WorkerLoad(w)
  \/ \E w \in Workers : WorkerStore(w)
  \/ ParJoin

InitSpecPar ==
  InitPar /\ CsrIdle /\ SpmmIdle /\ TermIdle /\ GemmOff /\ arith \in {"exact", "float"} /\ BufIdle /\ DetIdle /\ DrvIdle /\ StatIdle /\ RowIdle /\ IdxIdle /\ MapIdle /\ HtIdle

SpecPar == InitSpecPar /\ [][NextPar]_vars

----------------------------------------------------------------------------
(* The parallel regions: properties *)

\* C13: in the parallel regions of GEMM, SpMM and the triad no worker writes
\* anything but the output array (C, or a), two distinct workers never write
\* the same element, no worker reads an element another worker writes, no
\* worker touches memory before the fork, and in SpMM the zero-fill of C is
\* complete when the workers start.
C13_NoDataRace ==
  /\ \A w \in Workers : \A loc \in pwrites[w] : loc[1] = OutArray(pjob)
  /\ \A w1 \in Workers : \A w2 \in Workers \ {w1} :
       pwrites[w1] \cap (pwrites[w2] \cup preads[w2]) = {}
  /\ pphase = "entry" => \A w \in Workers : ppos[w] = 0
  /\ (pjob.kernel = "spmm" /\ pphase # "entry") => pmem0 = ZeroBuf(OutSize(pjob))

\* two workers have both finished statements of an SpMM region, each on a row
\* of its own
C13_Witness ==
  /\ pjob.kernel = "spmm"
  /\ pphase = "joined"
  /\ pthreads = 2
  /\ \A w \in Workers : pwrites[w] # {} /\ preads[w] # {}

\* C14: for fixed operands, initial C and tile / jblock parameters, the C a
\* kernel leaves is the one the loop leaves when run by a single thread in
\* the loop's order, for every number of workers, every assignment of the
\* iterations to the workers and every interleaving of their loads and
\* stores; in float arithmetic too, so the order of the additions on each
\* element is the same.
C14_ScheduleIndependent ==
  pphase = "joined" => pmem = RunStmts(pjob, pmem0, Flat(ParIterations(pjob)))

\* a float GEMM region of two workers has ended, the first iteration was given
\* to the second worker, and every worker accumulated into C
C14_Witness ==
  /\ pjob.kernel = "gemm"
  /\ pphase = "joined"
  /\ arith = "float"
  /\ pthreads = 2
  /\ powner[1] = 2
  /\ pjob.k >= 2
  /\ \A w \in Workers : pwrites[w] # {}
  /\ pmem # pmem0

----------------------------------------------------------------------------
(* The loop headers of a kernel call.  The tile sizes and jblock are the     *)
(* ints the driver read from its command line; nothing checks them.          *)

\* the values --tileM, --tileK, --tileN and --jblock can carry, by sign
StepArgs == {-1, 0, 1, 2}

\* gemm_tiled_scalar / gemm_tiled_avx2: for ii < m step tileM, for kk < k step
\* tileK, for jj < n step tileN
GemmLoops ==
  {[kernel |-> "gemm", hi |-> <<mm, kc, nn>>, step |-> <<tm, tk, tn>>] :
     mm \in 1 .. MaxDim, kc \in 1 .. MaxDim, nn \in 1 .. MaxDim,
     tm \in StepArgs, tk \in StepArgs, tn \in StepArgs}

\* spmm_csr_scalar / spmm_csr_avx2: for i < m step 1, for j0 < n step jblock
SpmmLoops ==
  {[kernel |-> "spmm", hi |-> <<mm, nn>>, step |-> <<1, jb>>] :
     mm \in 1 .. MaxDim, nn \in 1 .. MaxDim, jb \in StepArgs}

\* an int addition: <<"ok", sum>>, or, on signed overflow (undefined), the
\* wrapped sum or a trap
AddInt(a, b) ==
  IF a + b \in (-MaxInt - 1) .. MaxInt THEN {<<"ok", a + b>>}
  ELSE {<<"ok", ((a + b + MaxInt + 1) % (2 * (MaxInt + 1))) - (MaxInt + 1)>>,
        <<"trap", 0>>}

InitTerm ==
  /\ tjob \in GemmLoops \cup SpmmLoops
  /\ tctr = [d \in DOMAIN tjob.hi |-> 0]
  /\ tdepth = 1
  /\ tpc = "call"

\* the kernel is entered.  The outermost loop is an OpenMP worksharing loop:
\* with a step >= 1 its iterations run; with a step <= 0 it is not a
\* conforming loop, and the build may run it as written, skip it, or trap
\* on the iteration count
TermCall ==
  /\ tpc = "call"
  /\ tpc' \in (IF tjob.step[1] >= 1 THEN {"test"} ELSE {"test", "returned", "crashed"})
  /\ UNCHANGED nonTermVars
  /\ UNCHANGED <<tjob, tctr, tdepth>>

\* a loop header whose condition holds: the loop body is entered (the next
\* loop starts at 0, or the statements of the innermost body run)
LoopEnter ==
  /\ tpc = "test"
  /\ tctr[tdepth] < tjob.hi[tdepth]
  /\ IF tdepth = Len(tjob.hi)
       THEN tpc' = "body" /\ UNCHANGED <<tctr, tdepth>>
       ELSE /\ tdepth' = tdepth + 1
            /\ tctr' = [tctr EXCEPT ![tdepth + 1] = 0]
            /\ UNCHANGED tpc
  /\ UNCHANGED nonTermVars
  /\ UNCHANGED tjob

\* the increment of loop d: ctr += step
LoopStep(d) ==
  \E v \in AddInt(tctr[d], tjob.step[d]) :
    IF v[1] = "trap"
      THEN tpc' = "crashed" /\ UNCHANGED <<tctr, tdepth>>
      ELSE tpc' = "test" /\ tdepth' = d /\ tctr' = [tctr EXCEPT ![d] = v[2]]

\* a loop header whose condition fails: the loop is left; the kernel returns
\* from the outermost one, otherwise the enclosing loop is incremented
LoopExit ==
  /\ tpc = "test"
  /\ tctr[tdepth] >= tjob.hi[tdepth]
  /\ IF tdepth = 1
       THEN tpc' = "returned" /\ UNCHANGED <<tctr, tdepth>>
       ELSE LoopStep(tdepth - 1)
  /\ UNCHANGED nonTermVars
  /\ UNCHANGED tjob

\* the innermost body has run: the innermost loop is incremented
LoopBody ==
  /\ tpc = "body"
  /\ LoopStep(tdepth)
  /\ UNCHANGED nonTermVars
  /\ UNCHANGED tjob

NextTerm ==
  \/ TermCall
  \/ LoopEnter
  \/ LoopExit
  \/ LoopBody

InitSpecTerm == InitTerm /\ CsrIdle /\ GemmIdle /\ SpmmIdle /\ ParIdle /\ BufIdle /\ DetIdle /\ DrvIdle /\ StatIdle /\ RowIdle /\ IdxIdle /\ MapIdle /\ HtIdle

\* a running kernel keeps running: its next step is always taken
SpecTerm == InitSpecTerm /\ [][NextTerm]_vars /\ WF_vars(NextTerm)

\* C15: every kernel call returns, whatever integers the driver forwards as
\* tileM, tileK, tileN and jblock.
C15_KernelReturns == <>(tpc = "returned")

----------------------------------------------------------------------------
(* AlignedBuffer: make_aligned_f32 and free_aligned *)

BufNames == {"a", "b", "c"}

\* AlignedBuffer's default member initialisers: ptr = nullptr, count = 0; the
\* other fields record the call that built the object and the free_aligned
\* calls made on it since
EmptyBuffer ==
  [ptr |-> 0, count |-> 0, reqCount |-> 0, reqAlign |-> 0, made |-> FALSE,
   blk |-> 0, freeCalls |-> 0]

\* count * sizeof(float) in size_t arithmetic
MulSize(a, b) == (a * b) % (2 ^ SizeBits)

AlignUp(x, al) == ((x + al - 1) \div al) * al

\* posix_memalign accepts a power of two that is a multiple of sizeof(void*)
ValidAlignment(al) == al % SizeofPtr = 0 /\ \E e \in 0 .. SizeBits : al = 2 ^ e

\* posix_memalign(&p, alignment, bytes): <<return value, p>>; a request of 0
\* bytes may succeed with a null p
PosixMemalign(al, bytes) ==
  IF ~ValidAlignment(al) THEN {<<"EINVAL", 0>>}
  ELSE {<<"ENOMEM", 0>>, <<"ok", AlignUp(htop, al)>>}
       \cup (IF bytes = 0 THEN {<<"ok", 0>>} ELSE {})

\* aligned_malloc: nullptr when posix_memalign fails
AlignedMalloc(al, bytes) == {IF r[1] = "ok" THEN r[2] ELSE 0 : r \in PosixMemalign(al, bytes)}

\* make_aligned_f32(count, alignment): the pointers aligned_malloc can return;
\* a null one makes the function abort
MakeAlignedF32(count, al) == AlignedMalloc(al, MulSize(count, SizeofFloat))

\* the object make_aligned_f32 returns for a non-null pointer q
MadeBuffer(count, al, q) ==
  [ptr |-> q, count |-> count, reqCount |-> count, reqAlign |-> al, made |-> TRUE,
   blk |-> q, freeCalls |-> 0]

\* the heap after the block at q was handed out
HeapAfterAlloc(count, q) == Append(heap, [addr |-> q, bytes |-> MulSize(count, SizeofFloat), frees |-> 0])

\* std::free(q): nothing for a null pointer, else the block goes to the deallocator
StdFree(q) ==
  [x \in DOMAIN heap |->
     IF q # 0 /\ heap[x].addr = q THEN [heap[x] EXCEPT !.frees = @ + 1] ELSE heap[x]]

\* a free_aligned that leaves the object as it was
AfterFreeKeepPtr(b) == [b EXCEPT !.made = FALSE, !.freeCalls = @ + 1]

\* free_aligned: b.ptr = nullptr; b.count = 0
AfterFree(b) == [b EXCEPT !.ptr = 0, !.count = 0, !.made = FALSE, !.freeCalls = @ + 1]

\* the counts and alignments a client asks for: small ones, and the counts
\* around the one whose byte size no longer fits a size_t
Counts ==
  {0, 1, 3, (2 ^ SizeBits) \div SizeofFloat, (2 ^ SizeBits) \div SizeofFloat + 1,
   2 ^ SizeBits - 1}

Alignments == {0, SizeofFloat, SizeofPtr, SizeofPtr + SizeofFloat, 2 * SizeofPtr}

InitBuf ==
  /\ heap = <<>>
  /\ htop = SizeofPtr
  /\ bufs = [x \in BufNames |-> EmptyBuffer]
  /\ bpc = "client"
  /\ bops = 0
  /\ bN = 0 /\ biters = 0 /\ bit = 0 /\ bdata = <<>>

\* bufs[name] = make_aligned_f32(count, al)
ClientMake(name, count, al) ==
  /\ bpc = "client"
  /\ bops < MaxOps
  /\ bops' = bops + 1
  /\ \E q \in MakeAlignedF32(count, al) :
       IF q = 0
         THEN bpc' = "aborted" /\ UNCHANGED <<heap, htop, bufs>>
         ELSE /\ bufs' = [bufs EXCEPT ![name] = MadeBuffer(count, al, q)]
              /\ heap' = HeapAfterAlloc(count, q)
              /\ htop' = q + Max2(1, MulSize(count, SizeofFloat))
              /\ UNCHANGED bpc
  /\ UNCHANGED nonBufVars
  /\ UNCHANGED <<bN, biters, bit, bdata>>

\* free_aligned(bufs[name])
ClientFree(name) ==
  /\ bpc = "client"
  /\ bops < MaxOps
  /\ bops' = bops + 1
  /\ heap' = StdFree(bufs[name].ptr)
  /\ bufs' = [bufs EXCEPT ![name] = AfterFree(@)]
  /\ UNCHANGED nonBufVars
  /\ UNCHANGED <<htop, bpc, bN, biters, bit, bdata>>

NextBuf ==
  \/ \E name \in BufNames, count \in Counts, al \in Alignments : ClientMake(name, count, al)
  \/ \E name \in BufNames : ClientFree(name)

InitSpecBuf == InitBuf /\ CsrIdle /\ GemmIdle /\ SpmmIdle /\ ParIdle /\ TermIdle /\ DetIdle /\ DrvIdle /\ StatIdle /\ RowIdle /\ IdxIdle /\ MapIdle /\ HtIdle

SpecBuf == InitSpecBuf /\ [][NextBuf]_vars

\* the block a non-null pointer q points to
BlockAt(q) == heap[CHOOSE x \in DOMAIN heap : heap[x].addr = q]

\* C17: make_aligned_f32 either aborts or returns a buffer whose ptr is
\* non-null and aligned to the requested alignment, whose count is the
\* requested count, and whose block holds exactly count floats.
C17_MakeAlignedTwoOutcomes ==
  \A x \in BufNames :
    bufs[x].made =>
      /\ bufs[x].ptr # 0
      /\ bufs[x].ptr % bufs[x].reqAlign = 0
      /\ bufs[x].count = bufs[x].reqCount
      /\ BlockAt(bufs[x].ptr).bytes = bufs[x].count * SizeofFloat

\* C18: after free_aligned(b), b.ptr is null and b.count is 0, and however
\* often free_aligned is called on the object, its block goes to the
\* deallocator exactly once; no block is freed twice.
C18_FreedOnce ==
  /\ \A x \in DOMAIN heap : heap[x].frees <= 1
  /\ \A x \in BufNames :
       bufs[x].freeCalls >= 1 =>
         /\ bufs[x].ptr = 0
         /\ bufs[x].count = 0
         /\ bufs[x].blk # 0 => BlockAt(bufs[x].blk).frees = 1

\* free_aligned was called twice on an object that owned a block
C18_Witness ==
  \E x \in BufNames :
    /\ bufs[x].freeCalls = 2
    /\ bufs[x].blk # 0
    /\ BlockAt(bufs[x].blk).frees = 1

----------------------------------------------------------------------------
(* stream_triad_bandwidth_gbps *)

\* an integer as a rational over the denominator of s
AsRational(v) == <<TriadS[2] * v, TriadS[2]>>

\* the three fill_random calls: a, b and c from the seeds 1, 2 and 3
TriadFilled(n) ==
  [a |-> [x \in 0 .. n - 1 |-> AsRational(FillRandom(n, 1)[x])],
   b |-> FillRandom(n, 2),
   c |-> FillRandom(n, 3)]

\* a sweep that stops one element early
SweepRangeShort(n) == 0 .. n - 2

\* for (size_t i = 0; i < N; i++)
SweepRange(n) == 0 .. n - 1

\* one repetition: a.ptr[i] = b.ptr[i] + s * c.ptr[i] for the i of the loop
TriadSweep(d, n) ==
  [d EXCEPT !.a = [x \in 0 .. n - 1 |->
                     IF x \in SweepRange(n) THEN TriadValue(d.b[x], d.c[x]) ELSE d.a[x]]]

\* the position after the make_aligned_f32 / free_aligned of one buffer
TriadAfter ==
  [alloc_a |-> "alloc_b", alloc_b |-> "alloc_c", alloc_c |-> "fill",
   free_a |-> "free_b", free_b |-> "free_c", free_c |-> "returned"]

InitTriad ==
  /\ heap = <<>>
  /\ htop = SizeofPtr
  /\ bufs = [x \in BufNames |-> EmptyBuffer]
  /\ bpc = "alloc_a"
  /\ bops = 0
  /\ bN \in 0 .. MaxDim + 1
  /\ biters \in 0 .. MaxIters
  /\ bit = 0
  /\ bdata = <<>>

\* AlignedBuffer x = make_aligned_f32(N, 64)
TriadAlloc(name) ==
  /\ bpc = "alloc_" \o name
  /\ \E q \in MakeAlignedF32(bN, TriadAlign) :
       IF q = 0
         THEN bpc' = "aborted" /\ UNCHANGED <<heap, htop, bufs>>
         ELSE /\ bufs' = [bufs EXCEPT ![name] = MadeBuffer(bN, TriadAlign, q)]
              /\ heap' = HeapAfterAlloc(bN, q)
              /\ htop' = q + Max2(1, MulSize(bN, SizeofFloat))
              /\ bpc' = TriadAfter[bpc]
  /\ UNCHANGED nonBufVars
  /\ UNCHANGED <<bops, bN, biters, bit, bdata>>

TriadFill ==
  /\ bpc = "fill"
  /\ bdata' = TriadFilled(bN)
  /\ bpc' = "loop"
  /\ UNCHANGED nonBufVars
  /\ UNCHANGED <<heap, htop, bufs, bops, bN, biters, bit>>

\* one iteration of for (it = 0; it < iters; it++): the whole parallel loop
TriadRepeat ==
  /\ bpc = "loop"
  /\ bit < biters
  /\ bdata' = TriadSweep(bdata, bN)
  /\ bit' = bit + 1
  /\ UNCHANGED nonBufVars
  /\ UNCHANGED <<heap, htop, bufs, bpc, bops, bN, biters>>

\* the loop ends; t1, sec and gbps are computed
TriadLoopExit ==
  /\ bpc = "loop"
  /\ ~(bit < biters)
  /\ bpc' = "free_a"
  /\ UNCHANGED nonBufVars
  /\ UNCHANGED <<heap, htop, bufs, bops, bN, biters, bit, bdata>>

\* free_aligned(x)
TriadFree(name) ==
  /\ bpc = "free_" \o name
  /\ heap' = StdFree(bufs[name].ptr)
  /\ bufs' = [bufs EXCEPT ![name] = AfterFree(@)]
  /\ bpc' = TriadAfter[bpc]
  /\ UNCHANGED nonBufVars
  /\ UNCHANGED <<htop, bops, bN, biters, bit, bdata>>

NextTriad ==
  \/ \E name \in BufNames : TriadAlloc(name)
  \/ TriadFill
  \/ TriadRepeat
  \/ TriadLoopExit
  \/ \E name \in BufNames : TriadFree(name)

InitSpecTriad == InitTriad /\ CsrIdle /\ GemmIdle /\ SpmmIdle /\ ParIdle /\ TermIdle /\ DetIdle /\ DrvIdle /\ StatIdle /\ RowIdle /\ IdxIdle /\ MapIdle /\ HtIdle

SpecTriad == InitSpecTriad /\ [][NextTriad]_vars

TriadFilledPcs == {"loop", "free_a", "free_b", "free_c", "returned"}

\* C16: after any repetition of the triad a[i] = b[i] + s * c[i] for every i
\* of [0, N) (so every further repetition leaves the same a), b and c keep the
\* contents fill_random gave them, and when the probe returns each of its
\* three buffers was released exactly once.
C16_TriadComputes ==
  /\ bpc \in TriadFilledPcs =>
       /\ bdata.b = FillRandom(bN, 2)
       /\ bdata.c = FillRandom(bN, 3)
       /\ bit >= 1 => \A x \in 0 .. bN - 1 : bdata.a[x] = TriadValue(bdata.b[x], bdata.c[x])
  /\ \A x \in DOMAIN heap : heap[x].frees <= 1
  /\ bpc = "returned" =>
       /\ bit = Max2(0, biters)
       /\ Len(heap) = Cardinality(BufNames)
       /\ \A x \in DOMAIN heap : heap[x].frees = 1
       /\ \A x \in BufNames : bufs[x].ptr = 0 /\ bufs[x].freeCalls = 1

\* the probe returned after two repetitions over more than one element
C16_Witness ==
  /\ bpc = "returned"
  /\ bit = 2
  /\ bN >= 2
  /\ bdata.a[bN - 1] = TriadValue(bdata.b[bN - 1], bdata.c[bN - 1])
  /\ bdata.a[bN - 1] # AsRational(FillRandom(bN, 1)[bN - 1])
  /\ \A x \in DOMAIN heap : heap[x].frees = 1

----------------------------------------------------------------------------
(* The random engine of fill_random and make_random_csr, and a caller *)

\* one step of the engine (the generator of RngState)
RngNext(e) == (5 * e + 3) % 16

\* the engine e after `steps` draws
RECURSIVE RngAfter(_, _)
RngAfter(e, steps) == IF steps = 0 THEN e ELSE RngAfter(RngNext(e), steps - 1)

\* std::mt19937_64 rng(seed)
Seeded(sd) == sd % 16

\* an engine that outlives the call (a static or file-scope object): the call
\* continues from the state the previous call left
EngineKept(sd, old) == old

\* the engine a call draws from: a local object constructed from the seed,
\* whatever engine objects earlier calls had
EngineAtEntry(sd, old) == Seeded(sd)

\* dist(rng) / vdist(rng) on the engine state e, as in FillRandom
DetVal(e) == (e % 7) - 3

\* a uniform_int_distribution<int>(lo, hi) on the engine state e; with lo > hi
\* the value is whatever the build computes from e
DetInt(e, lo, hi, kc) ==
  IF lo <= hi THEN lo + (e % (hi - lo + 1)) ELSE ((e + dbuild.wild) % (kc + 3)) - 1

\* fill_random's loop on an engine that starts in e0
FillFrom(e0, n) == [x \in 0 .. n - 1 |-> DetVal(RngAfter(e0, x + 1))]

\* band / blockdiag: the <<lo, hi>> of a row
DetRange(pat, row, mm, kc, d) ==
  IF pat = "band" THEN <<BandLo(row, mm, kc, d), BandHi(row, mm, kc, d)>>
  ELSE <<BlockLo(row, mm, kc), BlockHi(row, mm, kc)>>

DetTarget(pat, row, mm, kc, d) ==
  LET r == DetRange(pat, row, mm, kc, d) IN Target(r[2] - r[1] + 1, kc, d)

\* band / blockdiag: engine draws made by the rows before `row` (a bdist and a
\* vdist draw per entry)
RECURSIVE DetDrawsBefore(_, _, _, _, _)
DetDrawsBefore(pat, row, mm, kc, d) ==
  IF row = 0 THEN 0
  ELSE DetDrawsBefore(pat, row - 1, mm, kc, d) + 2 * DetTarget(pat, row - 1, mm, kc, d)

\* band / blockdiag: the columns / the values pushed for a row, in draw order
DetRowCols(e0, pat, row, mm, kc, d) ==
  LET r == DetRange(pat, row, mm, kc, d)
      n0 == DetDrawsBefore(pat, row, mm, kc, d)
  IN  [t \in 1 .. DetTarget(pat, row, mm, kc, d) |->
         DetInt(RngAfter(e0, n0 + 2 * t - 1), r[1], r[2], kc)]

DetRowVals(e0, pat, row, mm, kc, d) ==
  LET n0 == DetDrawsBefore(pat, row, mm, kc, d)
  IN  [t \in 1 .. DetTarget(pat, row, mm, kc, d) |-> DetVal(RngAfter(e0, n0 + 2 * t))]

\* uniform: the row, column and value of draw t (rowdist, coldist, vdist)
UniRow(e0, t, mm) == DetInt(RngAfter(e0, 3 * t - 2), 0, mm - 1, mm)
UniCol(e0, t, kc) == DetInt(RngAfter(e0, 3 * t - 1), 0, kc - 1, kc)
UniVal(e0, t) == DetVal(RngAfter(e0, 3 * t))

\* uniform: the draws t .. nnz that fell on `row`, in order
RECURSIVE UniPicks(_, _, _, _, _)
UniPicks(e0, row, t, nnz, mm) ==
  IF t > nnz THEN <<>>
  ELSE (IF UniRow(e0, t, mm) = row THEN <<t>> ELSE <<>>) \o UniPicks(e0, row, t + 1, nnz, mm)

\* uniform: rows before `row` that were empty after the draw loop
UniEmptyBefore(e0, row, nnz, mm) ==
  Cardinality({r \in 0 .. row - 1 : UniPicks(e0, r, 1, nnz, mm) = <<>>})

\* the idx std::sort leaves for the columns rc: one element of SortedIdx(rc),
\* equal columns in the order the build's sort puts them
DetSortIdx(rc) ==
  LET n == Len(rc)
      key(p) == rc[p] * (n + 1) + (IF dbuild.ties = "asc" THEN p ELSE n + 1 - p)
      sorted == StdSort([p \in 1 .. n |-> key(p)])
  IN  [t \in 1 .. n |->
         IF dbuild.ties = "asc" THEN sorted[t] % (n + 1) ELSE n + 1 - (sorted[t] % (n + 1))]

\* uniform: <<cols[row], vals[row]>> after the fix-up loop
DetUniformRow(e0, row, mm, kc, d) ==
  LET nnz == Nnz(mm, kc, d)
      picks == UniPicks(e0, row, 1, nnz, mm)
      n0 == 3 * nnz + 2 * UniEmptyBefore(e0, row, nnz, mm)
      rc == IF picks = <<>> THEN <<DetInt(RngAfter(e0, n0 + 1), 0, kc - 1, kc)>>
            ELSE [t \in 1 .. Len(picks) |-> UniCol(e0, picks[t], kc)]
      rv == IF picks = <<>> THEN <<DetVal(RngAfter(e0, n0 + 2))>>
            ELSE [t \in 1 .. Len(picks) |-> UniVal(e0, picks[t])]
  IN  DedupLoop(rc, rv, DetSortIdx(rc), 1, -1, <<>>, <<>>)

\* make_random_csr on an engine that starts in e0: the returned A
MakeCsrFrom(e0, mm, kc, d, pat) ==
  LET br == Branch(pat)
      cs == [row \in 0 .. mm - 1 |->
               IF br = "uniform" THEN DetUniformRow(e0, row, mm, kc, d)[1]
               ELSE SortUniqueCols(DetRowCols(e0, br, row, mm, kc, d))]
      vs == [row \in 0 .. mm - 1 |->
               IF br = "uniform" THEN DetUniformRow(e0, row, mm, kc, d)[2]
               ELSE DetRowVals(e0, br, row, mm, kc, d)]
  IN  [rowptr |-> RowPtr(cs, mm),
       colidx |-> ConcatRows(cs, cs, 0, mm),
       values |-> ConcatRows(cs, vs, 0, mm)]

\* engine draws of one make_random_csr call
CsrDraws(e0, mm, kc, d, pat) ==
  IF Branch(pat) = "uniform"
    THEN 3 * Nnz(mm, kc, d) + 2 * UniEmptyBefore(e0, mm, Nnz(mm, kc, d), mm)
    ELSE DetDrawsBefore(Branch(pat), mm, mm, kc, d)

\* the caller's arguments
DetSeeds == {0, 1}
DetShapes == {<<1, 1>>, <<2, 2>>, <<2, 3>>}
DetDensities == {<<0, 1>>, <<1, 1>>}
DetPatterns == {"uniform", "band", "blockdiag"}

InitDet ==
  /\ deng \in 0 .. 15
  /\ dbuild \in [ties : {"asc", "desc"}, wild : {0, 1}]
  /\ dcalls = 0
  /\ dref = <<>>
  /\ drepeat = <<>>
  /\ dreps = 0
  /\ dbetween = 0

\* the caller notes the call's arguments and result
Noted(args, res) ==
  IF dref = <<>>
    THEN dref' = [args |-> args, res |-> res] /\ drepeat' = res /\ UNCHANGED <<dreps, dbetween>>
  ELSE IF args = dref.args
    THEN /\ drepeat' = res
         /\ dreps' = IF dbetween > 0 THEN dreps + 1 ELSE dreps
         /\ dbetween' = 0
         /\ UNCHANGED dref
  ELSE dbetween' = dbetween + 1 /\ UNCHANGED <<dref, drepeat, dreps>>

\* fill_random(x, n, sd)
CallFillRandom(n, sd) ==
  /\ dcalls < MaxDetCalls
  /\ dcalls' = dcalls + 1
  /\ Noted(<<"fill_random", n, sd>>, FillFrom(EngineAtEntry(sd, deng), n))
  /\ deng' = RngAfter(EngineAtEntry(sd, deng), n)
  /\ UNCHANGED dbuild
  /\ UNCHANGED nonDetVars

\* make_random_csr(mm, kc, d, pat, sd)
CallMakeRandomCsr(mm, kc, d, pat, sd) ==
  /\ dcalls < MaxDetCalls
  /\ Branch(pat) = "uniform" => Nnz(mm, kc, d) <= MaxDraws
  /\ dcalls' = dcalls + 1
  /\ Noted(<<"make_random_csr", mm, kc, d, pat, sd>>,
           MakeCsrFrom(EngineAtEntry(sd, deng), mm, kc, d, pat))
  /\ deng' = RngAfter(EngineAtEntry(sd, deng), CsrDraws(EngineAtEntry(sd, deng), mm, kc, d, pat))
  /\ UNCHANGED dbuild
  /\ UNCHANGED nonDetVars

\* stream_triad_bandwidth_gbps(n, ..): its three fill_random calls, the last
\* with seed 3
CallTriad(n) ==
  /\ dcalls < MaxDetCalls
  /\ dcalls' = dcalls + 1
  /\ deng' = RngAfter(EngineAtEntry(3, deng), n)
  /\ IF dref = <<>> THEN UNCHANGED dbetween ELSE dbetween' = dbetween + 1
  /\ UNCHANGED <<dbuild, dref, drepeat, dreps>>
  /\ UNCHANGED nonDetVars

\* zero_fill, a GEMM or an SpMM kernel: no engine is involved
CallKernel ==
  /\ dcalls < MaxDetCalls
  /\ dcalls' = dcalls + 1
  /\ IF dref = <<>> THEN UNCHANGED dbetween ELSE dbetween' = dbetween + 1
  /\ UNCHANGED <<deng, dbuild, dref, drepeat, dreps>>
  /\ UNCHANGED nonDetVars

NextDet ==
  \/ \E n \in 0 .. MaxDim, sd \in DetSeeds : CallFillRandom(n, sd)
  \/ \E sh \in DetShapes, d \in DetDensities, pat \in DetPatterns, sd \in DetSeeds :
       CallMakeRandomCsr(sh[1], sh[2], d, pat, sd)
  \/ \E n \in 1 .. MaxDim : CallTriad(n)
  \/ CallKernel

InitSpecDet ==
  InitDet /\ CsrIdle /\ GemmIdle /\ SpmmIdle /\ ParIdle /\ TermIdle /\ BufIdle /\ DrvIdle /\ StatIdle /\ RowIdle /\ IdxIdle /\ MapIdle /\ HtIdle

SpecDet == InitSpecDet /\ [][NextDet]_vars

C19_WitnessFill ==
  /\ dref # <<>>
  /\ dref.args[1] = "fill_random"
  /\ dref.args[2] >= 2
  /\ dreps >= 1
  /\ drepeat = dref.res

----------------------------------------------------------------------------
(* The driver's repetition loops *)

\* const int reps of the branch
Reps(kern) == IF kern = "gemm" THEN GemmReps ELSE SpmmReps

\* the ticks a kernel call takes: the first call of the process may take longer
\* (cold caches, first-touch page faults, the thread team's start)
CallTicks(done) == IF done = 0 THEN {1, 2} ELSE {1}

InitDrv ==
  /\ bench_kernel \in {"gemm", "spmm_csr"}
  /\ bench_pc = "test"
  /\ bench_r = 0
  /\ bench_t0 = -1
  /\ call_times = <<>>
  /\ clock \in {0, 1}
  /\ kernel_calls = 0
  /\ timed_calls = 0

\* for (int r = 0; r < reps; r++): the test
DrvTest ==
  /\ bench_pc = "test"
  /\ bench_pc' = IF bench_r < Reps(bench_kernel)
                   THEN (IF bench_kernel = "gemm" THEN "zero" ELSE "t0")
                   ELSE "done"
  /\ UNCHANGED <<bench_kernel, bench_r, bench_t0, call_times, clock, kernel_calls, timed_calls>>
  /\ UNCHANGED nonDrvVars

\* gemm: zero_fill(C.ptr, C.count), before the clock is read
DrvZeroFill ==
  /\ bench_pc = "zero"
  /\ bench_pc' = "t0"
  /\ clock' = clock + 1
  /\ UNCHANGED <<bench_kernel, bench_r, bench_t0, call_times, kernel_calls, timed_calls>>
  /\ UNCHANGED nonDrvVars

\* double t0 = now_seconds()
DrvT0 ==
  /\ bench_pc = "t0"
  /\ bench_t0' = clock
  /\ bench_pc' = "call"
  /\ UNCHANGED <<bench_kernel, bench_r, call_times, clock, kernel_calls, timed_calls>>
  /\ UNCHANGED nonDrvVars

\* the kernel call of the iteration
DrvCall ==
  /\ bench_pc = "call"
  /\ \E d \in CallTicks(kernel_calls) : clock' = clock + d
  /\ kernel_calls' = kernel_calls + 1
  /\ timed_calls' = IF bench_t0 # -1 THEN timed_calls + 1 ELSE timed_calls
  /\ bench_pc' = "t1"
  /\ UNCHANGED <<bench_kernel, bench_r, bench_t0, call_times>>
  /\ UNCHANGED nonDrvVars

\* double t1 = now_seconds(); call_times.push_back(t1 - t0); r++
DrvT1 ==
  /\ bench_pc = "t1"
  /\ call_times' = Append(call_times, clock - bench_t0)
  /\ bench_t0' = -1
  /\ bench_r' = bench_r + 1
  /\ bench_pc' = "test"
  /\ UNCHANGED <<bench_kernel, clock, kernel_calls, timed_calls>>
  /\ UNCHANGED nonDrvVars

NextDrv ==
  \/ DrvTest
  \/ DrvZeroFill
  \/ DrvT0
  \/ DrvCall
  \/ DrvT1

InitSpecDrv ==
  InitDrv /\ CsrIdle /\ GemmIdle /\ SpmmIdle /\ ParIdle /\ TermIdle /\ BufIdle /\ DetIdle /\ StatIdle /\ RowIdle /\ IdxIdle /\ MapIdle /\ HtIdle

SpecDrv == InitSpecDrv /\ [][NextDrv]_vars

\* C20: when a measurement of reps trials is over, the kernel was executed
\* reps + 1 times: once untimed, before the first sample, and reps times
\* between a t0 and a t1 reading, each giving one sample; the executions
\* exceed the samples by one.
C20_WarmupThenTimed ==
  bench_pc = "done" =>
    /\ Len(call_times) = Reps(bench_kernel)
    /\ timed_calls = Len(call_times)
    /\ kernel_calls = Len(call_times) + 1

----------------------------------------------------------------------------
(* The driver's statistics: seconds = tmp[tmp.size() / 2] and percentile_us *)

\* v.size() - 1 in size_t arithmetic
SizeSub1(n) == (n - 1) % (2 ^ SizeBits)

\* size_t i = (size_t)idx with idx = q * (v.size() - 1), q = qn / PctDen
PickIndex(qn, n) == (qn * SizeSub1(n)) \div PctDen

\* frac = idx - (double)i, as a numerator over PctDen
PickFrac(qn, n) == (qn * SizeSub1(n)) % PctDen

\* an upper rank without the clamp
UpperNoClamp(x, n) == x + 1

\* std::min(i + 1, v.size() - 1)
Upper(x, n) == Min2(x + 1, SizeSub1(n))

\* v[x]; outside the vector the read returns whatever g stands for
ReadAt(v, x, g) == IF x \in 0 .. Len(v) - 1 THEN v[x + 1] ELSE g

\* pick(q): (a + frac * (b - a)) * 1e6, in 1/PctDen microseconds
Pick(v, qn, g) ==
  LET x == PickIndex(qn, Len(v))
      a == ReadAt(v, x, g)
      b == ReadAt(v, Upper(x, Len(v)), g)
  IN  (PctDen * a + PickFrac(qn, Len(v)) * (b - a)) * UsPerSec

\* the indices of v that pick(q) reads
PickReads(v, qn) == {PickIndex(qn, Len(v)), Upper(PickIndex(qn, Len(v)), Len(v))}

\* a percentile_us that does not test for an empty vector
NoEmptyCheck(v) == FALSE

\* if (samples_sec.empty())
EmptyCheck(v) == v = <<>>

\* percentile_us(samples_sec, p50, p95, p99): the three results and the reads
PercentileUs(v, g) ==
  IF EmptyCheck(v) THEN [p50 |-> 0, p95 |-> 0, p99 |-> 0, reads |-> {}]
  ELSE LET sv == StdSort(v)
       IN  [p50 |-> Pick(sv, 50, g), p95 |-> Pick(sv, 95, g), p99 |-> Pick(sv, 99, g),
            reads |-> PickReads(sv, 50) \cup PickReads(sv, 95) \cup PickReads(sv, 99)]

\* the populations the repetition loops record: n samples of 1 second, `slow`
\* of them taking 2 (one of these 3), spread over the vector by a stride
Strides == {1, 7, 11}

DriverSamples(n, slow, stride) ==
  [x \in 1 .. n |->
     LET r == ((x - 1) * stride) % n
     IN  1 + (IF r < slow THEN 1 ELSE 0) + (IF r = 0 /\ slow > 0 THEN 1 ELSE 0)]

\* the vectors a client passes to percentile_us
ClientSamples == UNION {[1 .. n -> 0 .. 2] : n \in 0 .. MaxSamples}

InitStat ==
  /\ stat_src \in {"gemm", "spmm_csr", "stream", "client"}
  /\ samples \in
       IF stat_src = "client" THEN ClientSamples
       ELSE IF stat_src = "stream" THEN {<<0>>}
       ELSE {DriverSamples(Reps(stat_src), slow, stride) :
               slow \in 0 .. Reps(stat_src), stride \in Strides}
  /\ samples0 = samples
  /\ stat_pc = IF stat_src = "client" THEN "percentile" ELSE "median"
  /\ seconds = 0 /\ p50 = 0 /\ p95 = 0 /\ p99 = 0
  /\ stat_reads = {}

\* gemm / spmm_csr: tmp = call_times; std::sort(tmp); seconds = tmp[tmp.size() / 2]
StatMedian ==
  /\ stat_pc = "median"
  /\ stat_src \in {"gemm", "spmm_csr"}
  /\ LET tmp == StdSort(samples)
     IN  seconds' = tmp[(Len(tmp) \div 2) + 1]
  /\ stat_pc' = "percentile"
  /\ UNCHANGED <<stat_src, samples, samples0, p50, p95, p99, stat_reads>>
  /\ UNCHANGED nonStatVars

\* stream: seconds = 0.0; call_times = {0.0}
StatStream ==
  /\ stat_pc = "median"
  /\ stat_src = "stream"
  /\ seconds' = 0
  /\ samples' = <<0>>
  /\ stat_pc' = "percentile"
  /\ UNCHANGED <<stat_src, samples0, p50, p95, p99, stat_reads>>
  /\ UNCHANGED nonStatVars

\* percentile_us(call_times, p50, p95, p99)
StatPercentile ==
  /\ stat_pc = "percentile"
  /\ \E g \in {-1, 9} :
       LET res == PercentileUs(samples, g)
       IN  /\ p50' = res.p50
           /\ p95' = res.p95
           /\ p99' = res.p99
           /\ stat_reads' = res.reads
  /\ stat_pc' = "reported"
  /\ UNCHANGED <<stat_src, samples, samples0, seconds>>
  /\ UNCHANGED nonStatVars

NextStat ==
  \/ StatMedian
  \/ StatStream
  \/ StatPercentile

InitSpecStat ==
  InitStat /\ CsrIdle /\ GemmIdle /\ SpmmIdle /\ ParIdle /\ TermIdle /\ BufIdle /\ DetIdle
    /\ DrvIdle /\ RowIdle /\ IdxIdle /\ MapIdle /\ HtIdle

SpecStat == InitSpecStat /\ [][NextStat]_vars

\* twice the median of v: the middle element of the sorted samples, or the sum
\* of the two middle ones
MedianTwice(v) ==
  LET sv == StdSort(v)
      n == Len(v)
  IN  IF n % 2 = 1 THEN 2 * sv[(n + 1) \div 2] ELSE sv[n \div 2] + sv[(n \div 2) + 1]

\* C21: once the driver has computed seconds, seconds is the median of the
\* recorded samples (of the 15 GEMM and of the 20 SpMM samples), and
\* call_times is as it was recorded.
C21_SecondsIsMedian ==
  (stat_src \in {"gemm", "spmm_csr"} /\ stat_pc \in {"percentile", "reported"}) =>
    /\ samples = samples0
    /\ 2 * seconds = MedianTwice(samples0)

\* the interpolation between the sorted ranks floor(q (s-1)) and
\* min(floor(q (s-1)) + 1, s - 1), in 1/PctDen microseconds
Interpolated(v, qn) ==
  LET sv == StdSort(v)
      n == Len(v)
      lo == (qn * (n - 1)) \div PctDen
      hi == Min2(lo + 1, n - 1)
  IN  (PctDen * sv[lo + 1] + (qn * (n - 1) - PctDen * lo) * (sv[hi + 1] - sv[lo + 1])) * UsPerSec

SampleMin(v) == CHOOSE x \in {v[y] : y \in DOMAIN v} : \A y \in DOMAIN v : x <= v[y]
SampleMax(v) == CHOOSE x \in {v[y] : y \in DOMAIN v} : \A y \in DOMAIN v : x >= v[y]

\* C22: for a non-empty vector the three results are the interpolations
\* between the sorted ranks, min <= p50 <= p95 <= p99 <= max (in
\* microseconds), the results are those of the sorted vector (the order of
\* the input does not matter), the input is unchanged and only indices of
\* [0, s-1] are read.
C22_PercentileInterpolates ==
  (stat_pc = "reported" /\ samples0 # <<>>) =>
    /\ p50 = Interpolated(samples0, 50)
    /\ p95 = Interpolated(samples0, 95)
    /\ p99 = Interpolated(samples0, 99)
    /\ SampleMin(samples0) * UsPerSec * PctDen <= p50
    /\ p50 <= p95
    /\ p95 <= p99
    /\ p99 <= SampleMax(samples0) * UsPerSec * PctDen
    /\ \A g \in {-1, 9} :
         /\ PercentileUs(StdSort(samples0), g).p50 = p50
         /\ PercentileUs(StdSort(samples0), g).p95 = p95
         /\ PercentileUs(StdSort(samples0), g).p99 = p99
    /\ stat_src # "stream" => samples = samples0
    /\ stat_reads \subseteq 0 .. Len(samples0) - 1

\* percentile_us ran on an unsorted vector whose p95 lies strictly between
\* two samples
C22_Witness ==
  /\ stat_pc = "reported"
  /\ Len(samples0) >= 3
  /\ samples0 # StdSort(samples0)
  /\ p50 < p95
  /\ p95 < p99
  /\ p99 < SampleMax(samples0) * UsPerSec * PctDen

\* C26: in a record of the driver the reported seconds, in microseconds,
\* equals the reported p50.
C26_SecondsEqualsP50 ==
  (stat_pc = "reported" /\ stat_src # "client") => seconds * UsPerSec * PctDen = p50

\* C28: on an empty vector percentile_us returns three zeros and reads no
\* element; on a single-sample vector it returns that sample, in
\* microseconds, three times.
C28_EmptyAndSingle ==
  stat_pc = "reported" =>
    /\ samples = <<>> => (p50 = 0 /\ p95 = 0 /\ p99 = 0 /\ stat_reads = {})
    /\ Len(samples) = 1 =>
         /\ p50 = samples[1] * UsPerSec * PctDen
         /\ p95 = p50
         /\ p99 = p50
         /\ stat_reads = {0}

\* percentile_us returned from an empty vector
C28_Witness ==
  /\ stat_pc = "reported"
  /\ stat_src = "client"
  /\ samples = <<>>
  /\ p50 = 0 /\ p95 = 0 /\ p99 = 0
  /\ stat_reads = {}

----------------------------------------------------------------------------
(* make_random_csr: the size of a uniform matrix *)

\* the target of the uniform pattern, max(m, round(m * k * density))
UniformTarget == Max2(m, Round(m * k * density[1], density[2]))

\* C25 as stated: the uniform pattern returns between m and
\* max(m, round(m*k*density)) non-zeros.
C25_NnzWithinTarget ==
  (pc = "done" /\ Branch(pattern) = "uniform") =>
    /\ m <= rowptr[m]
    /\ rowptr[m] <= UniformTarget

\* C25 as amended: the uniform pattern returns at least m non-zeros and at
\* most the target plus one fallback entry per row the draws missed (at most
\* m - 1 rows), and never more than m * k; the count exceeds the target when
\* the draws leave a row empty without losing as many duplicates.
C25_NnzWithinTargetPlusFallbacks ==
  (pc = "done" /\ Branch(pattern) = "uniform") =>
    /\ m <= rowptr[m]
    /\ rowptr[m] <= nvals
    /\ nvals - UniformTarget <= m - 1
    /\ rowptr[m] <= UniformTarget + (m - 1)
    /\ rowptr[m] <= m * k

\* a uniform matrix with more non-zeros than the target: a row received the
\* fallback entry and no duplicate was dropped
C25_Witness ==
  /\ pc = "done"
  /\ Branch(pattern) = "uniform"
  /\ nvals > UniformTarget
  /\ rowptr[m] > UniformTarget
  /\ rowptr[m] <= UniformTarget + (m - 1)

----------------------------------------------------------------------------
(* make_random_csr: one row of the band / blockdiag loops *)

\* the subsets of D with at most n elements
RECURSIVE UpTo(_, _)
UpTo(D, n) ==
  IF n = 0 THEN {{}}
  ELSE LET prev == UpTo(D, n - 1)
       IN  prev \cup {T \cup {x} : T \in prev, x \in D}

RECURSIVE SeqOf(_)
SeqOf(S) ==
  IF S = {} THEN <<>>
  ELSE LET x == CHOOSE y \in S : TRUE IN <<x>> \o SeqOf(S \ {x})

\* what `target` draws from bdist(lo, hi) followed by sort and unique can
\* leave in cols[i]: the drawn columns form a non-empty set of at most
\* `target` values of the distribution, stored in increasing order
RowOutcomes(lo, hi, target, kc) ==
  {SortUniqueCols(SeqOf(S)) : S \in UpTo(Draw(lo, hi, kc), target) \ {{}}}

InitRow ==
  /\ row_m \in 1 .. MaxRowM
  /\ row_k \in 1 .. MaxRowK
  /\ row_density \in Densities
  /\ row_pattern \in {"band", "blockdiag"}
  /\ row_i \in 0 .. row_m - 1
  /\ row_cols = <<>>
  /\ row_pc = "draw"

\* iteration i of the band loop
BuildBandRow ==
  /\ row_pc = "draw"
  /\ row_pattern = "band"
  /\ LET lo == BandLo(row_i, row_m, row_k, row_density)
         hi == BandHi(row_i, row_m, row_k, row_density)
     IN  row_cols' \in RowOutcomes(lo, hi, Target(hi - lo + 1, row_k, row_density), row_k)
  /\ row_pc' = "built"
  /\ UNCHANGED <<row_m, row_k, row_density, row_pattern, row_i>>
  /\ UNCHANGED nonRowVars

\* iteration i of the blockdiag loop
BuildBlockdiagRow ==
  /\ row_pc = "draw"
  /\ row_pattern = "blockdiag"
  /\ LET lo == BlockLo(row_i, row_m, row_k)
         hi == BlockHi(row_i, row_m, row_k)
     IN  row_cols' \in RowOutcomes(lo, hi, Target(hi - lo + 1, row_k, row_density), row_k)
  /\ row_pc' = "built"
  /\ UNCHANGED <<row_m, row_k, row_density, row_pattern, row_i>>
  /\ UNCHANGED nonRowVars

NextRow ==
  \/ BuildBandRow
  \/ BuildBlockdiagRow

InitSpecRow ==
  InitRow /\ CsrIdle /\ GemmIdle /\ SpmmIdle /\ ParIdle /\ TermIdle /\ BufIdle /\ DetIdle
    /\ DrvIdle /\ StatIdle /\ IdxIdle /\ MapIdle /\ HtIdle

SpecRow == InitSpecRow /\ [][NextRow]_vars

\* C23: in the band pattern every column of row i lies in
\* [max(0, c - bw), min(k - 1, c + bw)] with c = floor(i*k/m), for a bw with
\* 1 <= bw <= max(1, round(0.20 k)), and the row holds between 1 and
\* min(span, max(1, round(density*k))) entries, span being the band's width.
C23_BandRow ==
  (row_pattern = "band" /\ row_pc = "built") =>
    LET c == (row_i * row_k) \div row_m
        bw == BandWidth(row_k, row_density)
        lo == Max2(0, c - bw)
        hi == Min2(row_k - 1, c + bw)
        span == hi - lo + 1
    IN  /\ 1 <= bw
        /\ bw <= Max2(1, Round(20 * row_k, 100))
        /\ \A p \in 1 .. Len(row_cols) : lo <= row_cols[p] /\ row_cols[p] <= hi
        /\ 1 <= Len(row_cols)
        /\ Len(row_cols) <=
             Min2(span, Max2(1, Round(row_density[1] * row_k, row_density[2])))

\* a band row of a matrix wide enough for a half-width above 1, cut off at the
\* right edge, holding several columns
C23_Witness ==
  /\ row_pattern = "band"
  /\ row_pc = "built"
  /\ BandWidth(row_k, row_density) >= 2
  /\ ((row_i * row_k) \div row_m) + BandWidth(row_k, row_density) > row_k - 1
  /\ Len(row_cols) >= 3
  /\ row_cols[Len(row_cols)] = row_k - 1

\* block b of the columns: [b * bk, min(k - 1, b * bk + bk - 1)], bk = max(1, k / 8)
ColumnBlock(b, kc) ==
  {c \in 0 .. kc - 1 :
     b * Max2(1, kc \div blocks) <= c /\ c <= b * Max2(1, kc \div blocks) + Max2(1, kc \div blocks) - 1}

\* C24: in the blockdiag pattern every column of [0, k) belongs to exactly one
\* of the 8 blocks, and every column of row i lies in the block
\* min(7, floor(i / max(1, floor(m / 8)))).
C24_BlocksPartitionColumns ==
  (row_pattern = "blockdiag" /\ row_pc = "built") =>
    /\ \A c \in 0 .. row_k - 1 :
         Cardinality({b \in 0 .. blocks - 1 : c \in ColumnBlock(b, row_k)}) = 1
    /\ \A p \in 1 .. Len(row_cols) :
           row_cols[p] \in
             ColumnBlock(Min2(blocks - 1, row_i \div Max2(1, row_m \div blocks)), row_k)

----------------------------------------------------------------------------
(* the kernels' element offsets, computed in int *)

\* the value of a size_t converted to int
WrapInt(v) == ((v + MaxInt + 1) % (2 * (MaxInt + 1))) - (MaxInt + 1)

\* the int expression a * b + c.  When the product or the sum leaves the
\* range of int the behaviour is undefined: a build may use the wrapped
\* value, may have widened the arithmetic to the pointer's width, or may trap
IntMulAdd(a, b, c) ==
  IF a * b \in (-MaxInt - 1) .. MaxInt /\ a * b + c \in (-MaxInt - 1) .. MaxInt
  THEN {<<"ok", a * b + c>>}
  ELSE {<<"ok", WrapInt(a * b + c)>>, <<"ok", a * b + c>>, <<"trap", 0>>}

\* the driver's arguments: atoi yields an int
InitIdx ==
  /\ idx_m \in 1 .. MaxInt
  /\ idx_k \in 1 .. MaxInt
  /\ idx_n \in 1 .. MaxInt
  /\ idx_size = <<0, 0, 0>>
  /\ idx_expr = "none"
  /\ idx_math = 0
  /\ idx_off = <<"ok", 0>>
  /\ idx_limit = 0
  /\ idx_pc = "alloc"

\* main: the three buffers of (size_t)m * (size_t)k, k * n and m * n floats
\* are allocated; the products and the byte counts fit in size_t
IdxAlloc ==
  /\ idx_pc = "alloc"
  /\ \A c \in {idx_m * idx_k, idx_k * idx_n, idx_m * idx_n} :
       c * SizeofFloat < 2 ^ SizeBits
  /\ idx_size' = <<MulSize(idx_m, idx_k), MulSize(idx_k, idx_n), MulSize(idx_m, idx_n)>>
  /\ idx_pc' = "index"
  /\ UNCHANGED <<idx_m, idx_k, idx_n, idx_expr, idx_math, idx_off, idx_limit>>
  /\ UNCHANGED nonIdxVars

\* an offset a * b + c into buffer number buf is evaluated in int
Evaluate(name, a, b, c, buf) ==
  /\ idx_expr' = name
  /\ idx_math' = a * b + c
  /\ idx_off' \in IntMulAdd(a, b, c)
  /\ idx_limit' = idx_size[buf]
  /\ idx_pc' = "done"
  /\ UNCHANGED <<idx_m, idx_k, idx_n, idx_size>>
  /\ UNCHANGED nonIdxVars

\* gemm_tiled_scalar: A[i * k + t], &B[t * n + jj], &C[i * n + jj]
IdxGemm ==
  /\ idx_pc = "index"
  /\ \E i \in 0 .. idx_m - 1, t \in 0 .. idx_k - 1, j \in 0 .. idx_n - 1 :
       \/ Evaluate("i*k+t", i, idx_k, t, 1)
       \/ Evaluate("t*n+j", t, idx_n, j, 2)
       \/ Evaluate("i*n+j", i, idx_n, j, 3)

\* spmm_csr_scalar: getB's B[col * n + j] and B[j * A.k + col], crow = &C[i * n]
IdxSpmm ==
  /\ idx_pc = "index"
  /\ \E i \in 0 .. idx_m - 1, col \in 0 .. idx_k - 1, j \in 0 .. idx_n - 1 :
       \/ Evaluate("col*n+j", col, idx_n, j, 2)
       \/ Evaluate("j*k+col", j, idx_k, col, 2)
       \/ Evaluate("i*n", i, idx_n, 0, 3)

\* make_random_csr: rowptr[m] = (int)total, total being the size_t sum of the
\* rows' sizes; every row holds between 1 and k columns
IdxRowptr ==
  /\ idx_pc = "index"
  /\ \E total \in idx_m .. idx_m * idx_k :
       /\ idx_expr' = "rowptr[m]"
       /\ idx_math' = total
       /\ idx_off' = <<"ok", WrapInt(total % (2 ^ SizeBits))>>
       /\ idx_limit' = idx_size[1] + 1
  /\ idx_pc' = "done"
  /\ UNCHANGED <<idx_m, idx_k, idx_n, idx_size>>
  /\ UNCHANGED nonIdxVars

NextIdx ==
  \/ IdxAlloc
  \/ IdxGemm
  \/ IdxSpmm
  \/ IdxRowptr

InitSpecIdx ==
  InitIdx /\ CsrIdle /\ GemmIdle /\ SpmmIdle /\ ParIdle /\ TermIdle /\ BufIdle /\ DetIdle
    /\ DrvIdle /\ StatIdle /\ RowIdle /\ MapIdle /\ HtIdle

SpecIdx == InitSpecIdx /\ [][NextIdx]_vars

\* C27: for every m, k, n whose buffers the driver allocates, each int
\* expression i*k+t, t*n+j, i*n+j, col*n+j, j*k+col and each int rowptr
\* entry equals its mathematical value, so each access stays inside its
\* buffer and rowptr[m] is the true nnz.
C27_OffsetsNeverWrap ==
  idx_pc = "done" =>
    /\ idx_off = <<"ok", idx_math>>
    /\ idx_math < idx_limit

----------------------------------------------------------------------------
(* Project A4: the chained hash table, one call at a time *)

\* the keys and values a client passes (non-negative ints)
MapKeys == {0, 1, 2}
MapValues == {1, 2}

\* hidx: (unsigned int)key % (unsigned int)nbuckets
Hidx(key, nb) == key % nb

\* ht_create: nbuckets == 0 becomes 1; calloc leaves every head NULL
HtCreate(nb) == [b \in 0 .. (IF nb = 0 THEN 1 ELSE nb) - 1 |-> <<>>]

\* the new node becomes the head of the list
InsertNode(list, key, value) == <<<<key, value>>>> \o list

\* the loop of ht_find: from node number pos on, <<1, value>> of the first
\* node with the key, <<0, 0>> at the end of the list (*out is not written)
RECURSIVE FindFrom(_, _, _)
FindFrom(list, pos, key) ==
  IF pos > Len(list) THEN <<0, 0>>
  ELSE IF list[pos][1] = key THEN <<1, list[pos][2]>>
  ELSE FindFrom(list, pos + 1, key)

\* the loop of ht_erase: the first node with the key is unlinked, <<1, list>>;
\* <<0, list>> at the end of the list
RECURSIVE EraseFrom(_, _, _)
EraseFrom(list, pos, key) ==
  IF pos > Len(list) THEN <<0, list>>
  ELSE IF list[pos][1] = key
       THEN <<1, SubSeq(list, 1, pos - 1) \o SubSeq(list, pos + 1, Len(list))>>
  ELSE EraseFrom(list, pos + 1, key)

HtInsert(heads, nb, key, value) ==
  [heads EXCEPT ![Hidx(key, nb)] = InsertNode(@, key, value)]

HtFind(heads, nb, key) == FindFrom(heads[Hidx(key, nb)], 1, key)

HtErase(heads, nb, key) ==
  LET r == EraseFrom(heads[Hidx(key, nb)], 1, key)
  IN  <<r[1], [heads EXCEPT ![Hidx(key, nb)] = r[2]]>>

FindAll(heads, nb) == [key \in MapKeys |-> HtFind(heads, nb, key)]

InitMap ==
  /\ map_nb \in 1 .. MaxBuckets
  /\ map_head = HtCreate(map_nb)
  /\ map_last = [key \in MapKeys |-> 0]
  /\ map_hist = [key \in MapKeys |-> "never"]
  /\ map_ret = <<"none", 0, 0, 0>>
  /\ map_before = [key \in MapKeys |-> <<0, 0>>]
  /\ map_ops = 0

\* ht_insert_coarse / ht_insert_fine called by the only thread
MapInsert ==
  /\ map_ops \in 0 .. MaxMapOps - 1
  /\ \E key \in MapKeys, value \in MapValues :
       /\ map_head' = HtInsert(map_head, map_nb, key, value)
       /\ map_last' = [map_last EXCEPT ![key] = value]
       /\ map_hist' = [map_hist EXCEPT ![key] = "inserted"]
       /\ map_ret' = <<"insert", key, 0, 0>>
  /\ map_before' = FindAll(map_head, map_nb)
  /\ map_ops' = map_ops + 1
  /\ UNCHANGED map_nb
  /\ UNCHANGED nonMapVars

\* ht_find_coarse / ht_find_fine
MapFind ==
  /\ map_ops \in 0 .. MaxMapOps - 1
  /\ \E key \in MapKeys :
       LET r == HtFind(map_head, map_nb, key)
       IN  map_ret' = <<"find", key, r[1], r[2]>>
  /\ map_before' = FindAll(map_head, map_nb)
  /\ map_ops' = map_ops + 1
  /\ UNCHANGED <<map_nb, map_head, map_last, map_hist>>
  /\ UNCHANGED nonMapVars

\* ht_erase_coarse / ht_erase_fine
MapErase ==
  /\ map_ops \in 0 .. MaxMapOps - 1
  /\ \E key \in MapKeys :
       LET r == HtErase(map_head, map_nb, key)
       IN  /\ map_head' = r[2]
           /\ map_hist' = IF r[1] = 1 THEN [map_hist EXCEPT ![key] = "erased"] ELSE map_hist
           /\ map_ret' = <<"erase", key, r[1], 0>>
  /\ map_before' = FindAll(map_head, map_nb)
  /\ map_ops' = map_ops + 1
  /\ UNCHANGED <<map_nb, map_last>>
  /\ UNCHANGED nonMapVars

NextMap ==
  \/ MapInsert
  \/ MapFind
  \/ MapErase

InitSpecMap ==
  InitMap /\ CsrIdle /\ GemmIdle /\ SpmmIdle /\ ParIdle /\ TermIdle /\ BufIdle /\ DetIdle
    /\ DrvIdle /\ StatIdle /\ RowIdle /\ IdxIdle /\ HtIdle

SpecMap == InitSpecMap /\ [][NextMap]_vars

\* after ht_insert(k, v), ht_find(k) returns 1 with the latest inserted value
MapFindsLatest ==
  \A key \in MapKeys :
    map_hist[key] = "inserted" => HtFind(map_head, map_nb, key) = <<1, map_last[key]>>

\* after ht_erase(k) returned 1, ht_find(k) returns 0 until k is inserted again
MapErasedIsGone ==
  \A key \in MapKeys :
    map_hist[key] = "erased" => HtFind(map_head, map_nb, key)[1] = 0

\* ht_erase(k) returns 0 exactly when k was absent
MapEraseReturn ==
  map_ret[1] = "erase" => (map_ret[3] = 0 <=> map_before[map_ret[2]][1] = 0)

\* a call on k leaves ht_find of every other key as it was
MapOtherKeys ==
  map_ret[1] # "none" =>
    \A key \in MapKeys \ {map_ret[2]} : HtFind(map_head, map_nb, key) = map_before[key]

\* C30: the table is a map from key to value: ht_find(k) returns 1 with the
\* latest inserted value after ht_insert(k, v), and 0 after ht_erase(k)
\* returned 1, until k is inserted again; ht_erase(k) returns 0 exactly when
\* k is absent; calls on k never change ht_find of another key.
C30_MapSemantics ==
  map_ops >= 0 =>
    /\ MapFindsLatest
    /\ MapErasedIsGone
    /\ MapEraseReturn
    /\ MapOtherKeys

----------------------------------------------------------------------------
(* Project A4: the hash table shared by the benchmark's threads *)

HtThreads == {1, 2}
HtKeys == {0, 1}
HtOps == {"insert", "find", "erase"}
Prefills == {0, 1}
HtBucketCounts == {1, 2}

\* main: for (k = 0; k < prefill; k++) ht_insert_coarse(ht, k, k), before any
\* thread is created
RECURSIVE PrefillFrom(_, _, _, _)
PrefillFrom(heads, nb, key, prefill) ==
  IF key >= prefill THEN heads
  ELSE PrefillFrom(HtInsert(heads, nb, key, key), nb, key + 1, prefill)

\* the lock a call takes: global_lock (-1) in the coarse variant, the lock of
\* the key's bucket in the fine variant
LockOf(impl, key, nb) == IF impl = "coarse" THEN -1 ELSE Hidx(key, nb)

\* a lock that never makes a caller wait
LockNeverBlocks(l) == TRUE

\* pthread_mutex_lock returns only when no thread holds the lock
LockFree(l) == ht_lock[l] = 0

RECURSIVE NodeCount(_, _)
NodeCount(heads, b) ==
  IF b < 0 THEN 0 ELSE Len(heads[b]) + NodeCount(heads, b - 1)

InitHt ==
  /\ ht_impl \in {"coarse", "fine"}
  /\ ht_nb \in HtBucketCounts
  /\ \E prefill \in Prefills :
       /\ ht_head = PrefillFrom(HtCreate(ht_nb), ht_nb, 0, prefill)
       /\ ht_abs = ht_head
       /\ ht_net = prefill
  /\ ht_lock = [l \in -1 .. ht_nb - 1 |-> 0]
  /\ ht_pc = [t \in HtThreads |-> "idle"]
  /\ ht_call = [t \in HtThreads |-> <<"find", 0, 0>>]
  /\ ht_pos = [t \in HtThreads |-> 1]
  /\ ht_node = [t \in HtThreads |-> <<>>]
  /\ ht_ret = [t \in HtThreads |-> <<0, 0>>]
  /\ ht_absret = [t \in HtThreads |-> <<0, 0>>]
  /\ ht_acq = [t \in HtThreads |-> <<0, 0>>]
  /\ ht_left = MaxHtCalls
  /\ ht_nolock = FALSE

\* the bucket and the lock of thread t's call
BucketOf(t) == Hidx(ht_call[t][2], ht_nb)
CallLock(t) == LockOf(ht_impl, ht_call[t][2], ht_nb)

\* thread t touches its bucket
Touch(t) == ht_nolock' = (ht_nolock \/ ht_lock[CallLock(t)] # t)

\* a thread enters ht_insert, ht_find or ht_erase of the variant in use; the
\* values of the inserts are pairwise distinct
HtCall(t) ==
  /\ ht_pc[t] = "idle"
  /\ ht_left > 0
  /\ \E op \in HtOps, key \in HtKeys :
       ht_call' = [ht_call EXCEPT ![t] = <<op, key, 10 * t + ht_left>>]
  /\ ht_left' = ht_left - 1
  /\ ht_acq' = [ht_acq EXCEPT ![t] = <<0, 0>>]
  /\ ht_pc' = [ht_pc EXCEPT ![t] = "lock"]
  /\ UNCHANGED <<ht_impl, ht_nb, ht_head, ht_lock, ht_pos, ht_node, ht_ret, ht_abs,
                 ht_absret, ht_nolock, ht_net>>
  /\ UNCHANGED nonHtVars

\* pthread_mutex_lock.  The call takes its place in the sequential order here
HtLock(t) ==
  /\ ht_pc[t] = "lock"
  /\ LockFree(CallLock(t))
  /\ ht_lock' = [ht_lock EXCEPT ![CallLock(t)] = t]
  /\ ht_acq' = [ht_acq EXCEPT ![t] = <<@[1] + 1, @[2]>>]
  /\ ht_pos' = [ht_pos EXCEPT ![t] = 1]
  /\ LET op == ht_call[t][1]
         key == ht_call[t][2]
         er == HtErase(ht_abs, ht_nb, key)
     IN  /\ ht_pc' = [ht_pc EXCEPT ![t] =
                        IF op = "insert" THEN "alloc" ELSE IF op = "find" THEN "walk" ELSE "scan"]
         /\ ht_abs' = IF op = "insert" THEN HtInsert(ht_abs, ht_nb, key, ht_call[t][3])
                      ELSE IF op = "erase" THEN er[2] ELSE ht_abs
         /\ ht_absret' = [ht_absret EXCEPT ![t] =
                            IF op = "insert" THEN <<0, 0>>
                            ELSE IF op = "find" THEN HtFind(ht_abs, ht_nb, key)
                            ELSE <<er[1], 0>>]
  /\ UNCHANGED <<ht_impl, ht_nb, ht_head, ht_call, ht_node, ht_ret, ht_left, ht_nolock, ht_net>>
  /\ UNCHANGED nonHtVars

\* ht_insert: n = malloc; n->key = key; n->value = value; n->next = head
HtAlloc(t) ==
  /\ ht_pc[t] = "alloc"
  /\ ht_node' = [ht_node EXCEPT ![t] = ht_head[BucketOf(t)]]
  /\ Touch(t)
  /\ ht_pc' = [ht_pc EXCEPT ![t] = "link"]
  /\ UNCHANGED <<ht_impl, ht_nb, ht_head, ht_lock, ht_call, ht_pos, ht_ret, ht_left, ht_abs,
                 ht_absret, ht_acq, ht_net>>
  /\ UNCHANGED nonHtVars

\* ht_insert: head = n
HtLink(t) ==
  /\ ht_pc[t] = "link"
  /\ ht_head' = [ht_head EXCEPT ![BucketOf(t)] =
                   InsertNode(ht_node[t], ht_call[t][2], ht_call[t][3])]
  /\ Touch(t)
  /\ ht_ret' = [ht_ret EXCEPT ![t] = <<0, 0>>]
  /\ ht_pc' = [ht_pc EXCEPT ![t] = "unlock"]
  /\ UNCHANGED <<ht_impl, ht_nb, ht_lock, ht_call, ht_pos, ht_node, ht_left, ht_abs,
                 ht_absret, ht_acq, ht_net>>
  /\ UNCHANGED nonHtVars

\* ht_find: one iteration of the loop over the bucket's list
HtWalk(t) ==
  /\ ht_pc[t] = "walk"
  /\ LET list == ht_head[BucketOf(t)]
         pos == ht_pos[t]
     IN  IF pos > Len(list)
         THEN /\ ht_ret' = [ht_ret EXCEPT ![t] = <<0, 0>>]
              /\ ht_pc' = [ht_pc EXCEPT ![t] = "unlock"]
              /\ UNCHANGED ht_pos
         ELSE IF list[pos][1] = ht_call[t][2]
         THEN /\ ht_ret' = [ht_ret EXCEPT ![t] = <<1, list[pos][2]>>]
              /\ ht_pc' = [ht_pc EXCEPT ![t] = "unlock"]
              /\ UNCHANGED ht_pos
         ELSE /\ ht_pos' = [ht_pos EXCEPT ![t] = pos + 1]
              /\ UNCHANGED <<ht_ret, ht_pc>>
  /\ Touch(t)
  /\ UNCHANGED <<ht_impl, ht_nb, ht_head, ht_lock, ht_call, ht_node, ht_left, ht_abs,
                 ht_absret, ht_acq, ht_net>>
  /\ UNCHANGED nonHtVars

\* ht_erase: one iteration of the loop; the first node with the key is
\* unlinked and freed
HtScan(t) ==
  /\ ht_pc[t] = "scan"
  /\ LET list == ht_head[BucketOf(t)]
         pos == ht_pos[t]
     IN  IF pos > Len(list)
         THEN /\ ht_ret' = [ht_ret EXCEPT ![t] = <<0, 0>>]
              /\ ht_pc' = [ht_pc EXCEPT ![t] = "unlock"]
              /\ UNCHANGED <<ht_pos, ht_head>>
         ELSE IF list[pos][1] = ht_call[t][2]
         THEN /\ ht_head' = [ht_head EXCEPT ![BucketOf(t)] =
                               SubSeq(list, 1, pos - 1) \o SubSeq(list, pos + 1, Len(list))]
              /\ ht_ret' = [ht_ret EXCEPT ![t] = <<1, 0>>]
              /\ ht_pc' = [ht_pc EXCEPT ![t] = "unlock"]
              /\ UNCHANGED ht_pos
         ELSE /\ ht_pos' = [ht_pos EXCEPT ![t] = pos + 1]
              /\ UNCHANGED <<ht_ret, ht_pc, ht_head>>
  /\ Touch(t)
  /\ UNCHANGED <<ht_impl, ht_nb, ht_lock, ht_call, ht_node, ht_left, ht_abs, ht_absret,
                 ht_acq, ht_net>>
  /\ UNCHANGED nonHtVars

\* pthread_mutex_unlock and the return
HtUnlock(t) ==
  /\ ht_pc[t] = "unlock"
  /\ ht_lock' = [ht_lock EXCEPT ![CallLock(t)] = 0]
  /\ ht_acq' = [ht_acq EXCEPT ![t] = <<@[1], @[2] + 1>>]
  /\ ht_net' = IF ht_call[t][1] = "insert" THEN ht_net + 1
               ELSE IF ht_call[t][1] = "erase" THEN ht_net - ht_ret[t][1]
               ELSE ht_net
  /\ ht_pc' = [ht_pc EXCEPT ![t] = "idle"]
  /\ UNCHANGED <<ht_impl, ht_nb, ht_head, ht_call, ht_pos, ht_node, ht_ret, ht_left, ht_abs,
                 ht_absret, ht_nolock>>
  /\ UNCHANGED nonHtVars

HtStep(t) ==
  \/ HtCall(t)
  \/ HtLock(t)
  \/ HtAlloc(t)
  \/ HtLink(t)
  \/ HtWalk(t)
  \/ HtScan(t)
  \/ HtUnlock(t)

NextHt == \E t \in HtThreads : HtStep(t)

InitSpecHt ==
  InitHt /\ CsrIdle /\ GemmIdle /\ SpmmIdle /\ ParIdle /\ TermIdle /\ BufIdle /\ DetIdle
    /\ DrvIdle /\ StatIdle /\ RowIdle /\ IdxIdle /\ MapIdle

SpecHt == InitSpecHt /\ [][NextHt]_vars

\* the scheduler runs some thread that can run
SpecHtFair == SpecHt /\ WF_vars(NextHt)

\* the locks thread t holds
HeldBy(t) == {l \in DOMAIN ht_lock : ht_lock[l] = t}

\* thread t is inside a call and its next step can be taken
CanStep(t) ==
  /\ ht_pc[t] # "idle"
  /\ ht_pc[t] = "lock" => ht_lock[CallLock(t)] = 0

HtSafe ==
  /\ ~ht_nolock
  /\ \A t \in HtThreads :
       /\ ht_pc[t] = "idle" =>
            /\ ht_acq[t] \in {<<0, 0>>, <<1, 1>>}
            /\ HeldBy(t) = {}
            /\ ht_ret[t] = ht_absret[t]
       /\ ht_pc[t] = "lock" => ht_acq[t] = <<0, 0>> /\ HeldBy(t) = {}
       /\ ht_pc[t] \notin {"idle", "lock"} =>
            ht_acq[t] = <<1, 0>> /\ HeldBy(t) = {CallLock(t)}
  /\ \A b \in 0 .. ht_nb - 1 :
       ht_lock[LockOf(ht_impl, b, ht_nb)] = 0 => ht_head[b] = ht_abs[b]
  /\ (\A l \in DOMAIN ht_lock : ht_lock[l] = 0) => NodeCount(ht_head, ht_nb - 1) = ht_net
  /\ (\E t \in HtThreads : ht_pc[t] # "idle") => \E t \in HtThreads : CanStep(t)

\* C29: when all threads use one variant, a bucket's list is read or written
\* only by the holder of the lock covering it; a call takes exactly one lock
\* and has released it when it returns; some thread inside a call can always
\* run and every call returns; no insert that returned is lost; the results
\* and the table equal those of the calls run one after the other.
C29_SafeUnderOneVariant ==
  /\ []((ht_left >= 0) => HtSafe)
  /\ \A t \in HtThreads : (ht_left >= 0 /\ ht_pc[t] # "idle") ~> (ht_pc[t] = "idle")

\* in the fine variant a thread waits for the lock of a prefilled bucket while
\* another thread is in the middle of an insert into that bucket
C29_Witness ==
  /\ ht_impl = "fine"
  /\ ht_left >= 0
  /\ \E t \in HtThreads, u \in HtThreads :
       /\ t # u
       /\ ht_pc[t] = "lock"
       /\ ht_pc[u] = "link"
       /\ ht_lock[CallLock(t)] = u
       /\ ht_nb > 1
       /\ Len(ht_head[BucketOf(t)]) > 0

============================================================================
